---------------------------- MODULE Spec2Model ----------------------------
(***************************************************************************)
(* Model of the rubric validator and the rubric store of                   *)
(* ai-video-analyzer (rubric_helper.py).                                   *)
(*                                                                         *)
(* Python values are tagged records [t, v].  Text is a sequence of         *)
(* one-character strings, so that formatting, parsing, file-name           *)
(* composition and glob matching are computed, not assumed.  Floats are    *)
(* fixed-point numbers counted in hundredths; NaN and +Infinity are        *)
(* separate tags.                                                          *)
(***************************************************************************)
EXTENDS Integers, Sequences, FiniteSets, TLC

(***************************************************************************)
(* Fixed-point unit: a float f is stored as the integer f * Unit, which    *)
(* keeps two decimal digits.                                               *)
(***************************************************************************)
Unit == 10 * 10

(* ---------------------------- Python values ---------------------------- *)

PInt(k) == [t |-> "int", v |-> k]

PFloat(h) == [t |-> "float", v |-> h]

PNaN == [t |-> "nan", v |-> 0]

PInf == [t |-> "inf", v |-> 0]

PNone == [t |-> "none", v |-> 0]

PStr(s) == [t |-> "str", v |-> s]

PList(l) == [t |-> "list", v |-> l]

PDict(d) == [t |-> "dict", v |-> d]

(* `key in d` for a dict d *)
Has(d, k) == k \in DOMAIN d.v

(* dict.get(key, default) *)
Get(d, k, default) == IF k \in DOMAIN d.v THEN d.v[k] ELSE default

(* d[key] = value on a dict *)
SetItem(d, k, x) ==
    PDict([kk \in (DOMAIN d.v) \cup {k} |-> IF kk = k THEN x ELSE d.v[kk]])

(* -------------------------------- text --------------------------------- *)

Digits == <<"0", "1", "2", "3", "4", "5", "6", "7", "8", "9">>

IsDigit(c) == \E i \in 1..10 : Digits[i] = c

DigitVal(c) == (CHOOSE i \in 1..10 : Digits[i] = c) - 1

RECURSIVE NatToStr(_)
NatToStr(n) ==
    IF n < 10 THEN <<Digits[n + 1]>>
    ELSE NatToStr(n \div 10) \o <<Digits[(n % 10) + 1]>>

IntToStr(n) == IF n < 0 THEN <<"-">> \o NatToStr(0 - n) ELSE NatToStr(n)

RECURSIVE StrToNat(_)
StrToNat(s) ==
    IF Len(s) = 0 THEN 0
    ELSE 10 * StrToNat(SubSeq(s, 1, Len(s) - 1)) + DigitVal(s[Len(s)])

AllDigits(s) == Len(s) > 0 /\ \A i \in 1..Len(s) : IsDigit(s[i])

(* position of the first "." in s, 0 when there is none *)
DotPos(s) ==
    IF \E i \in 1..Len(s) : s[i] = "."
    THEN CHOOSE i \in 1..Len(s) : s[i] = "." /\ \A j \in 1..(i - 1) : s[j] # "."
    ELSE 0

Unsigned(s) == IF Len(s) > 0 /\ s[1] = "-" THEN SubSeq(s, 2, Len(s)) ELSE s

Sign(s) == IF Len(s) > 0 /\ s[1] = "-" THEN 0 - 1 ELSE 1

(* an integer literal: optional sign, digits *)
IsIntLiteral(s) == AllDigits(Unsigned(s))

(* a decimal literal with one or two fractional digits *)
IsDecLiteral(s) ==
    LET u == Unsigned(s)
        p == DotPos(u)
    IN  /\ p > 1
        /\ AllDigits(SubSeq(u, 1, p - 1))
        /\ Len(u) - p \in {1, 2}
        /\ AllDigits(SubSeq(u, p + 1, Len(u)))

(* value, in hundredths, of an integer or decimal literal *)
LiteralValue(s) ==
    LET u == Unsigned(s)
        p == DotPos(u)
        frac == SubSeq(u, p + 1, Len(u))
    IN  IF p = 0 THEN Sign(s) * StrToNat(u) * Unit
        ELSE Sign(s) * (StrToNat(SubSeq(u, 1, p - 1)) * Unit
                        + (IF Len(frac) = 1 THEN 10 * StrToNat(frac)
                           ELSE StrToNat(frac)))

(* repr() of a finite float given in hundredths: shortest form, at least
   one fractional digit *)
FloatToStr(h) ==
    LET a == IF h < 0 THEN 0 - h ELSE h
        whole == NatToStr(a \div Unit)
        f == a % Unit
        frac == IF f % 10 = 0 THEN <<Digits[(f \div 10) + 1]>>
                ELSE <<Digits[(f \div 10) + 1], Digits[(f % 10) + 1]>>
    IN  (IF h < 0 THEN <<"-">> ELSE <<>>) \o whole \o <<".">> \o frac

(* ------------------------ Python conversions --------------------------- *)

Raised(e) == [exc |-> e, k |-> "none", n |-> 0]

Num(n) == [exc |-> "", k |-> "num", n |-> n]

NaN == [exc |-> "", k |-> "nan", n |-> 0]

Inf == [exc |-> "", k |-> "inf", n |-> 0]

(* a value returned, an exception raised *)
Returns(x) == [exc |-> "", value |-> x]

Throws(e) == [exc |-> e, value |-> PNone]

(* float(x): n is the value in hundredths *)
PyFloat(x) ==
    CASE x.t = "int" -> Num(x.v * Unit)
      [] x.t = "float" -> Num(x.v)
      [] x.t = "nan" -> NaN
      [] x.t = "inf" -> Inf
      [] x.t = "str" ->
            IF IsIntLiteral(x.v) \/ IsDecLiteral(x.v) THEN Num(LiteralValue(x.v))
            ELSE IF x.v = <<"n", "a", "n">> THEN NaN
            ELSE IF x.v = <<"i", "n", "f">> THEN Inf
            ELSE Raised("ValueError")
      [] OTHER -> Raised("TypeError")

(* truncation toward zero of a value in hundredths *)
Trunc(h) == IF h < 0 THEN 0 - ((0 - h) \div Unit) ELSE h \div Unit

(* int(x): n is the integer *)
PyInt(x) ==
    CASE x.t = "int" -> Num(x.v)
      [] x.t = "float" -> Num(Trunc(x.v))
      [] x.t = "nan" -> Raised("ValueError")
      [] x.t = "inf" -> Raised("OverflowError")
      [] x.t = "str" ->
            IF IsIntLiteral(x.v) THEN Num(LiteralValue(x.v) \div Unit)
            ELSE Raised("ValueError")
      [] OTHER -> Raised("TypeError")

(* str(x), as an f-string formats a value *)
PyStr(x) ==
    CASE x.t = "str" -> x.v
      [] x.t = "int" -> IntToStr(x.v)
      [] x.t = "float" -> FloatToStr(x.v)
      [] x.t = "nan" -> <<"n", "a", "n">>
      [] x.t = "inf" -> <<"i", "n", "f">>
      [] x.t = "none" -> <<"N", "o", "n", "e">>
      [] OTHER -> <<"?">>

(* a >= b on floats: every comparison with NaN is false *)
FloatGe(a, b) ==
    CASE a.k = "nan" \/ b.k = "nan" -> FALSE
      [] a.k = "inf" -> TRUE
      [] b.k = "inf" -> FALSE
      [] OTHER -> a.n >= b.n

FloatLt(a, b) ==
    CASE a.k = "nan" \/ b.k = "nan" -> FALSE
      [] a.k = "inf" -> FALSE
      [] b.k = "inf" -> TRUE
      [] OTHER -> a.n < b.n

(* a + b on floats *)
FloatAdd(a, b) ==
    CASE a.k = "nan" \/ b.k = "nan" -> NaN
      [] a.k = "inf" \/ b.k = "inf" -> Inf
      [] OTHER -> Num(a.n + b.n)

(* n == x for an int n and any value x *)
IntEquals(n, x) ==
    CASE x.t = "int" -> x.v = n
      [] x.t = "float" -> x.v = n * Unit
      [] OTHER -> FALSE

(* hash(x) succeeds *)
Hashable(x) == x.t \notin {"list", "dict"}

(* --------------------------- validate_rubric --------------------------- *)

Valid == [out |-> "valid", reason |-> "none"]

Invalid(r) == [out |-> "invalid", reason |-> r]

Escapes(e) == [out |-> "exception", reason |-> e]

(* `all(field in x for field in required)` followed, when it fails, by
   `required - set(x.keys())`.  A mapping answers by its keys.  A string or
   a list answers the membership test but has no keys() (and no string
   subscript when every name happens to be found), a number or None cannot
   be searched at all: both paths leave the validator by an exception that
   no handler catches. *)
FieldCheck(x, required) ==
    CASE x.t = "dict" ->
            IF \A f \in required : Has(x, f) THEN "ok" ELSE "missing"
      [] x.t \in {"str", "list"} -> "AttributeError"
      [] OTHER -> "TypeError"

CategoryFields == {"category_id", "label", "weight", "max_points", "criteria"}

CriterionFields == {"criterion_id", "label", "desc", "max_points"}

LegacyFields == {"id", "label", "desc", "weight"}

HierarchicalKeys == {"categories", "scale", "overall_method", "thresholds"}

LegacyKeys == {"criteria", "scale", "overall_method", "thresholds"}

(* lower and upper end of the accepted weight sum, in hundredths
   (0.99 and 1.01) *)
WeightSumMin == 99

WeightSumMax == 101

(* `weight < 0 or weight > 1` *)
WeightOutOfRange(w) == FloatLt(w, Num(0)) \/ FloatLt(Num(Unit), w)

(* a tolerance of 0.02 in place of 0.01 *)
WeightSumBad_Loose(total) ==
    ~(FloatGe(total, Num(WeightSumMin - 1)) /\ FloatGe(Num(WeightSumMax + 1), total))

(* `not (0.99 <= total_weight <= 1.01)` *)
WeightSumBad(total) ==
    ~(FloatGe(total, Num(WeightSumMin)) /\ FloatGe(Num(WeightSumMax), total))

(* the loop over one category's criteria, from criterion j on *)
RECURSIVE CheckCriteria(_, _, _, _)
CheckCriteria(crits, j, seen, points) ==
    IF j > Len(crits) THEN [res |-> Valid, points |-> points]
    ELSE
      LET c == crits[j]
          fc == FieldCheck(c, CriterionFields)
          stop(r) == [res |-> r, points |-> points]
      IN  IF fc = "missing" THEN stop(Invalid("criterion_missing_fields"))
          ELSE IF fc # "ok" THEN stop(Escapes(fc))
          ELSE IF ~Hashable(c.v["criterion_id"]) THEN stop(Escapes("TypeError"))
          ELSE IF c.v["criterion_id"] \in seen
               THEN stop(Invalid("duplicate_criterion_id"))
          ELSE
            LET mp == PyInt(c.v["max_points"])
            IN  IF mp.exc = "OverflowError" THEN stop(Escapes("OverflowError"))
                ELSE IF mp.exc # ""
                     THEN stop(Invalid("criterion_max_points_not_integer"))
                ELSE IF mp.n <= 0
                     THEN stop(Invalid("criterion_max_points_not_positive"))
                ELSE CheckCriteria(crits, j + 1,
                                   seen \cup {c.v["criterion_id"]},
                                   points + mp.n)

(* the loop over the categories, from category i on *)
RECURSIVE CheckCategories(_, _, _, _)
CheckCategories(cats, i, seen, total) ==
    IF i > Len(cats) THEN [res |-> Valid, total |-> total]
    ELSE
      LET c == cats[i]
          fc == FieldCheck(c, CategoryFields)
          stop(r) == [res |-> r, total |-> total]
      IN  IF fc = "missing" THEN stop(Invalid("category_missing_fields"))
          ELSE IF fc # "ok" THEN stop(Escapes(fc))
          ELSE IF ~Hashable(c.v["category_id"]) THEN stop(Escapes("TypeError"))
          ELSE IF c.v["category_id"] \in seen
               THEN stop(Invalid("duplicate_category_id"))
          ELSE
            LET w == PyFloat(c.v["weight"])
                mp == PyInt(c.v["max_points"])
                crits == c.v["criteria"]
            IN  IF w.exc # "" THEN stop(Invalid("category_weight_not_number"))
                ELSE IF WeightOutOfRange(w)
                     THEN stop(Invalid("category_weight_out_of_range"))
                ELSE IF mp.exc = "OverflowError"
                     THEN stop(Escapes("OverflowError"))
                ELSE IF mp.exc # ""
                     THEN stop(Invalid("category_max_points_not_integer"))
                ELSE IF mp.n <= 0
                     THEN stop(Invalid("category_max_points_not_positive"))
                ELSE IF crits.t # "list" \/ Len(crits.v) = 0
                     THEN stop(Invalid("category_criteria_not_list"))
                ELSE
                  LET cr == CheckCriteria(crits.v, 1, {}, 0)
                  IN  IF cr.res # Valid THEN stop(cr.res)
                      ELSE IF ~IntEquals(cr.points, c.v["max_points"])
                           THEN stop(Invalid("category_points_mismatch"))
                      ELSE CheckCategories(cats, i + 1,
                                           seen \cup {c.v["category_id"]},
                                           FloatAdd(total, w))

(* the loop over the criteria of a legacy rubric, from criterion i on *)
RECURSIVE CheckLegacy(_, _, _, _)
CheckLegacy(crits, i, seen, total) ==
    IF i > Len(crits) THEN [res |-> Valid, total |-> total]
    ELSE
      LET c == crits[i]
          fc == FieldCheck(c, LegacyFields)
          stop(r) == [res |-> r, total |-> total]
      IN  IF fc = "missing" THEN stop(Invalid("criterion_missing_fields"))
          ELSE IF fc # "ok" THEN stop(Escapes(fc))
          ELSE IF ~Hashable(c.v["id"]) THEN stop(Escapes("TypeError"))
          ELSE IF c.v["id"] \in seen THEN stop(Invalid("duplicate_criterion_id"))
          ELSE
            LET w == PyFloat(c.v["weight"])
            IN  IF w.exc # "" THEN stop(Invalid("criterion_weight_not_number"))
                ELSE IF WeightOutOfRange(w)
                     THEN stop(Invalid("criterion_weight_out_of_range"))
                ELSE CheckLegacy(crits, i + 1, seen \cup {c.v["id"]},
                                 FloatAdd(total, w))

(* the scale check and the thresholds check share one shape: a mapping with
   two keys whose float() values are strictly ordered *)
CheckPair(x, lo, hi, tag) ==
    IF x.t # "dict" THEN Invalid(tag \o "_not_dict")
    ELSE IF ~Has(x, lo) \/ ~Has(x, hi) THEN Invalid(tag \o "_missing_keys")
    ELSE
      LET a == PyFloat(x.v[lo])
          b == PyFloat(x.v[hi])
      IN  IF a.exc # "" \/ b.exc # "" THEN Invalid(tag \o "_not_numbers")
          ELSE IF FloatGe(a, b) THEN Invalid(tag \o "_order")
          ELSE Valid

CheckHierarchical(rubric) ==
    IF ~(\A k \in HierarchicalKeys : Has(rubric, k)) THEN Invalid("missing_keys")
    ELSE IF rubric.v["categories"].t # "list" \/ Len(rubric.v["categories"].v) = 0
         THEN Invalid("categories_not_list")
    ELSE
      LET cc == CheckCategories(rubric.v["categories"].v, 1, {}, Num(0))
      IN  IF cc.res # Valid THEN cc.res
          ELSE IF WeightSumBad(cc.total) THEN Invalid("category_weight_sum")
          ELSE Valid

CheckFlat(rubric) ==
    IF ~(\A k \in LegacyKeys : Has(rubric, k)) THEN Invalid("missing_keys")
    ELSE IF rubric.v["criteria"].t # "list" \/ Len(rubric.v["criteria"].v) = 0
         THEN Invalid("criteria_not_list")
    ELSE
      LET cc == CheckLegacy(rubric.v["criteria"].v, 1, {}, Num(0))
      IN  IF cc.res # Valid THEN cc.res
          ELSE IF WeightSumBad(cc.total) THEN Invalid("criterion_weight_sum")
          ELSE Valid

(* the legacy branch taken whenever `criteria` is present *)
validate_rubric_LegacyFirst(rubric) ==
    LET is_new_format == Has(rubric, "categories") /\ ~Has(rubric, "criteria")
        is_old_format == Has(rubric, "criteria")
    IN  IF ~is_new_format /\ ~is_old_format THEN Invalid("no_format_key")
        ELSE
          LET body == IF is_new_format THEN CheckHierarchical(rubric)
                      ELSE CheckFlat(rubric)
          IN  IF body # Valid THEN body
              ELSE
                LET sc == CheckPair(rubric.v["scale"], "min", "max", "scale")
                IN  IF sc # Valid THEN sc
                    ELSE CheckPair(rubric.v["thresholds"], "revise", "pass",
                                   "thresholds")

validate_rubric(rubric) ==
    LET is_new_format == Has(rubric, "categories")
        is_old_format == Has(rubric, "criteria")
    IN  IF ~is_new_format /\ ~is_old_format THEN Invalid("no_format_key")
        ELSE
          LET body == IF is_new_format THEN CheckHierarchical(rubric)
                      ELSE CheckFlat(rubric)
          IN  IF body # Valid THEN body
              ELSE
                LET sc == CheckPair(rubric.v["scale"], "min", "max", "scale")
                IN  IF sc # Valid THEN sc
                    ELSE CheckPair(rubric.v["thresholds"], "revise", "pass",
                                   "thresholds")

(* ------------------------- validator inputs ---------------------------- *)

(* most top-level entries (categories, or criteria of a legacy rubric) *)
MaxTop == 2

(* most criteria in one category *)
MaxCrits == 2

(* all sequences over S of length 1..n *)
SeqsUpTo(S, n) == UNION {[1..k -> S] : k \in 1..n}

Text == PStr(<<"l">>)

(* the i-th identifier with the given prefix: c1, c2, ... *)
Ident(prefix, i) == PStr(<<prefix>> \o NatToStr(i))

(* weights of n entries that sum to exactly 1.0: entry 1 takes the rest *)
EvenWeight(n, i) ==
    PFloat(IF i = 1 THEN Unit - (n - 1) * (Unit \div n) ELSE Unit \div n)

MkCriterion(id, max_points) ==
    PDict("criterion_id" :> id @@ "label" :> Text @@ "desc" :> Text
          @@ "max_points" :> max_points)

MkCategory(id, weight, max_points, criteria) ==
    PDict("category_id" :> id @@ "label" :> Text @@ "weight" :> weight
          @@ "max_points" :> max_points @@ "criteria" :> criteria)

MkLegacyCriterion(id, weight) ==
    PDict("id" :> id @@ "label" :> Text @@ "desc" :> Text @@ "weight" :> weight)

MkPair(lo, a, hi, b) == PDict(lo :> a @@ hi :> b)

GoodScale == MkPair("min", PInt(0), "max", PInt(4))

GoodThresholds == MkPair("revise", PInt(1), "pass", PInt(3))

MkHierarchical(categories, scale, thresholds) ==
    PDict("categories" :> categories @@ "scale" :> scale
          @@ "overall_method" :> PStr(<<"t">>) @@ "thresholds" :> thresholds)

MkLegacy(criteria, scale, thresholds) ==
    PDict("criteria" :> criteria @@ "scale" :> scale
          @@ "overall_method" :> PStr(<<"w">>) @@ "thresholds" :> thresholds)

GoodCriteria == PList(<<MkCriterion(Ident("k", 1), PInt(1))>>)

GoodCategories == PList(<<MkCategory(Ident("c", 1), PFloat(Unit), PInt(1), GoodCriteria)>>)

GoodLegacyCriteria == PList(<<MkLegacyCriterion(Ident("k", 1), PFloat(Unit))>>)

(* values tried as max_points where the point sums are explored *)
PointValues == {PInt(1), PInt(2), PFloat(150)}

(* a category of one criterion: one whose points add up, and one whose
   criterion holds a fraction *)
SimpleShapes ==
    {[max_points |-> PInt(1), criteria |-> <<PInt(1)>>],
     [max_points |-> PInt(1), criteria |-> <<PFloat(150)>>]}

(* further values tried as max_points of a single category or criterion *)
OddPointValues ==
    {PInt(0), PInt(0 - 1), PFloat(200), PFloat(50), PStr(<<"1">>), PStr(<<"2">>),
     PStr(<<"1", ".", "0">>), PStr(<<"x">>), PNone, PNaN, PInf, PList(<<>>)}

(* values tried as weights *)
WeightValues ==
    {PFloat(0), PFloat(49), PFloat(50), PFloat(51), PFloat(99), PFloat(101),
     PFloat(0 - 1), PInt(1), PStr(<<"0", ".", "5">>), PStr(<<"x">>), PNaN, PNone}

(* values tried as scale and threshold ends *)
EndValues ==
    {PInt(0), PInt(1), PFloat(50), PStr(<<"1">>), PStr(<<"x">>), PNaN, PInf, PNone}

(* identifiers tried where duplicates and unhashable ids are explored *)
IdValues == {Ident("c", 1), Ident("c", 2), PList(<<>>)}

(* the weights tried together with those identifiers *)
IdWeightValues == {PFloat(50), PFloat(101), PStr(<<"x">>)}

(* entries with distinct identifiers and any of the weights, and entries
   with any of the identifiers and a few weights *)
TopShapes ==
    {[i \in 1..Len(w) |-> [id |-> Ident("c", i), weight |-> w[i]]]
        : w \in SeqsUpTo(WeightValues, MaxTop)}
    \cup SeqsUpTo([id : IdValues, weight : IdWeightValues], MaxTop)

(* entries that are not mappings, and mappings without the required fields *)
BadEntries == {PInt(7), PStr(<<"x">>), PList(<<>>), PNone, PDict("label" :> Text)}

(* hierarchical rubrics whose declared and summed points vary: one category
   of any shape among categories of the simple shapes *)
PointRubrics ==
    LET shapes == [max_points : PointValues,
                   criteria : SeqsUpTo(PointValues, MaxCrits)]
        category(sh, n, i) ==
            MkCategory(Ident("c", i), EvenWeight(n, i), sh.max_points,
                       PList([j \in 1..Len(sh.criteria) |->
                              MkCriterion(Ident("k", j), sh.criteria[j])]))
    IN  {MkHierarchical(PList([i \in 1..Len(q) |->
                                category(IF i = at THEN sh ELSE q[i], Len(q), i)]),
                        GoodScale, GoodThresholds)
            : q \in SeqsUpTo(SimpleShapes, MaxTop), at \in 1..MaxTop, sh \in shapes}

(* one category with one or two criteria and unusual point values *)
OddPointRubrics ==
    LET all == PointValues \cup OddPointValues
    IN  {MkHierarchical(PList(<<MkCategory(Ident("c", 1), PFloat(Unit), mp,
                                          PList(<<MkCriterion(Ident("k", 1), a),
                                                  MkCriterion(Ident("k", 2), PInt(1))>>))>>),
                        GoodScale, GoodThresholds) : mp \in all, a \in all}

(* hierarchical rubrics whose category weights and ids vary *)
WeightRubrics ==
    {MkHierarchical(PList([i \in 1..Len(q) |->
                           MkCategory(q[i].id, q[i].weight, PInt(1), GoodCriteria)]),
                    GoodScale, GoodThresholds)
        : q \in TopShapes}

(* legacy rubrics whose criterion weights and ids vary *)
LegacyRubrics ==
    {MkLegacy(PList([i \in 1..Len(q) |-> MkLegacyCriterion(q[i].id, q[i].weight)]),
              GoodScale, GoodThresholds)
        : q \in TopShapes}

(* scale and thresholds of every shape, on both formats *)
PairValues(lo, hi) ==
    {MkPair(lo, a, hi, b) : a \in EndValues, b \in EndValues}
        \cup {PDict(lo :> PInt(0)), PDict(hi :> PInt(1)), PList(<<>>), PNone}

EndRubrics ==
    LET scales == PairValues("min", "max")
        thresholds == PairValues("revise", "pass")
    IN  {MkHierarchical(GoodCategories, sc, GoodThresholds) : sc \in scales}
        \cup {MkHierarchical(GoodCategories, GoodScale, th) : th \in thresholds}
        \cup {MkLegacy(GoodLegacyCriteria, sc, th)
                : sc \in {GoodScale, MkPair("min", PInt(1), "max", PInt(1)),
                          MkPair("min", PNaN, "max", PInt(1))},
                  th \in thresholds}

(* every subset of the top-level keys, over a rubric that holds good values
   for all of them *)
KeyRubrics ==
    LET full == "categories" :> GoodCategories @@ "criteria" :> GoodLegacyCriteria
                @@ "scale" :> GoodScale @@ "overall_method" :> PStr(<<"t">>)
                @@ "thresholds" :> GoodThresholds
        lists == {GoodCategories, GoodLegacyCriteria, PList(<<>>), PNone,
                  PList(<<PInt(7)>>)}
    IN  {PDict([k \in ks |-> IF k = "categories" THEN c
                              ELSE IF k = "criteria" THEN l ELSE full[k]])
            : ks \in SUBSET DOMAIN full, c \in lists, l \in lists}

(* categories and criteria that are not well-formed mappings *)
EntryRubrics ==
    {MkHierarchical(PList(<<e>>), GoodScale, GoodThresholds) : e \in BadEntries}
    \cup {MkHierarchical(PList(<<MkCategory(Ident("c", 1), PFloat(Unit), PInt(1), cr)>>),
                         GoodScale, GoodThresholds)
            : cr \in {PList(<<e>>) : e \in BadEntries}
                     \cup {PList(<<>>), PNone, PStr(<<"x">>),
                           PList(<<MkCriterion(PList(<<>>), PInt(1))>>),
                           PList(<<MkCriterion(Ident("k", 1), PInt(1)), PInt(7)>>)}}
    \cup {MkLegacy(PList(<<e>>), GoodScale, GoodThresholds) : e \in BadEntries}

RubricInputs ==
    PointRubrics \cup OddPointRubrics \cup WeightRubrics \cup LegacyRubrics
        \cup EndRubrics \cup KeyRubrics \cup EntryRubrics

(* ------------------------------ JSON files ----------------------------- *)

(* A file is the document json.dump wrote: a tree of tagged nodes in which
   every number is kept as the text of its literal.  NoFile is a path that
   does not exist, Garbage a file that json.load cannot parse. *)
NoFile == [t |-> "absent", v |-> 0]

Garbage == [t |-> "garbage", v |-> 0]

RECURSIVE JsonDump(_)
JsonDump(x) ==
    CASE x.t = "int" -> [t |-> "number", v |-> IntToStr(x.v)]
      [] x.t = "float" -> [t |-> "number", v |-> FloatToStr(x.v)]
      [] x.t = "nan" -> [t |-> "number", v |-> <<"N", "a", "N">>]
      [] x.t = "inf" ->
            [t |-> "number", v |-> <<"I", "n", "f", "i", "n", "i", "t", "y">>]
      [] x.t = "none" -> [t |-> "null", v |-> 0]
      [] x.t = "str" -> [t |-> "string", v |-> x.v]
      [] x.t = "list" ->
            [t |-> "array", v |-> [i \in 1..Len(x.v) |-> JsonDump(x.v[i])]]
      [] x.t = "dict" ->
            [t |-> "object", v |-> [k \in DOMAIN x.v |-> JsonDump(x.v[k])]]

(* the value json.load builds from a parsable document *)
RECURSIVE JsonValue(_)
JsonValue(doc) ==
    CASE doc.t = "number" ->
            IF IsIntLiteral(doc.v) THEN PInt(LiteralValue(doc.v) \div Unit)
            ELSE IF IsDecLiteral(doc.v) THEN PFloat(LiteralValue(doc.v))
            ELSE IF doc.v = <<"N", "a", "N">> THEN PNaN
            ELSE PInf
      [] doc.t = "null" -> PNone
      [] doc.t = "string" -> PStr(doc.v)
      [] doc.t = "array" -> PList([i \in 1..Len(doc.v) |-> JsonValue(doc.v[i])])
      [] doc.t = "object" -> PDict([k \in DOMAIN doc.v |-> JsonValue(doc.v[k])])

(* json.load: the value, or the exception it raises *)
JsonLoad(doc) ==
    IF doc.t = "garbage" THEN [exc |-> "JSONDecodeError", value |-> PNone]
    ELSE [exc |-> "", value |-> JsonValue(doc)]

(* ---------------------------- the rubric store -------------------------- *)

DotJson == <<".", "j", "s", "o", "n">>

(* datetime.now().strftime(...): fixed width, digits only, so that text
   order is time order; the clock is counted in seconds *)
Timestamp(clock) ==
    IF clock < 10 THEN <<"0">> \o NatToStr(clock) ELSE NatToStr(clock)

(* f"{filename}.v{current_version}.{timestamp}.json" *)
BackupFilename(filename, current_version, timestamp) ==
    filename \o <<".", "v">> \o PyStr(current_version) \o <<".">> \o timestamp
        \o DotJson

(* fnmatch of a name against f"{filename}.v{version}.*.json" when filename
   and version hold no wildcard *)
GlobMatch(name, filename, version) ==
    LET head == filename \o <<".", "v">> \o version \o <<".">>
    IN  /\ Len(name) >= Len(head) + Len(DotJson)
        /\ SubSeq(name, 1, Len(head)) = head
        /\ SubSeq(name, Len(name) - Len(DotJson) + 1, Len(name)) = DotJson

DefaultVersion == PStr(<<"1", ".", "0">>)

UnknownVersion == PStr(<<"u", "n", "k", "n", "o", "w", "n">>)

Current == PStr(<<"c", "u", "r", "r", "e", "n", "t">>)

Archive == PStr(<<"a", "r", "c", "h", "i", "v", "e">>)

(* the copy left as it was copied, never marked *)
BackupStep_Unmarked(canon, vers, filename, timestamp) ==
    LET parsed == JsonLoad(canon)
        is_dict == parsed.exc = "" /\ parsed.value.t = "dict"
        current_version ==
            IF is_dict THEN Get(parsed.value, "version", DefaultVersion)
            ELSE UnknownVersion
        backup_filename == BackupFilename(filename, current_version, timestamp)
    IN  [n \in (DOMAIN vers) \cup {backup_filename} |->
            IF n = backup_filename THEN canon ELSE vers[n]]

(* only the newest backup kept: the older ones deleted *)
BackupStep_Rotates(canon, vers, filename, timestamp) ==
    LET parsed == JsonLoad(canon)
        is_dict == parsed.exc = "" /\ parsed.value.t = "dict"
        current_version ==
            IF is_dict THEN Get(parsed.value, "version", DefaultVersion)
            ELSE UnknownVersion
        backup_filename == BackupFilename(filename, current_version, timestamp)
        copy == IF is_dict
                THEN JsonDump(SetItem(parsed.value, "status", Archive))
                ELSE canon
    IN  [n \in {backup_filename} |-> copy]

(* the versions area after the backup step of save_rubric_to_file *)
BackupStep(canon, vers, filename, timestamp) ==
    LET parsed == JsonLoad(canon)
        is_dict == parsed.exc = "" /\ parsed.value.t = "dict"
        current_version ==
            IF is_dict THEN Get(parsed.value, "version", DefaultVersion)
            ELSE UnknownVersion
        backup_filename == BackupFilename(filename, current_version, timestamp)
        copy == IF is_dict
                THEN JsonDump(SetItem(parsed.value, "status", Archive))
                ELSE canon
    IN  [n \in (DOMAIN vers) \cup {backup_filename} |->
            IF n = backup_filename THEN copy ELSE vers[n]]

(* an existing canonical file left as it is *)
save_rubric_to_file_KeepsOld(canon, vers, rubric_arg, filename, create_backup, timestamp) ==
    [canonical |-> IF canon.t # "absent" THEN canon ELSE JsonDump(rubric_arg),
     versions |-> IF create_backup /\ canon.t # "absent"
                  THEN BackupStep(canon, vers, filename, timestamp)
                  ELSE vers,
     ret |-> "ok"]

(* save_rubric_to_file: the store after the call and the value returned *)
save_rubric_to_file(canon, vers, rubric_arg, filename, create_backup, timestamp) ==
    [canonical |-> JsonDump(rubric_arg),
     versions |-> IF create_backup /\ canon.t # "absent"
                  THEN BackupStep(canon, vers, filename, timestamp)
                  ELSE vers,
     ret |-> "ok"]

(* load_rubric_from_file: the pair returned *)
load_rubric_from_file(canon) ==
    IF canon.t = "absent" THEN [rubric |-> PNone, err |-> "not_found"]
    ELSE LET parsed == JsonLoad(canon)
         IN  IF parsed.exc # "" THEN [rubric |-> PNone, err |-> "invalid_json"]
             ELSE [rubric |-> parsed.value, err |-> "none"]

(* the backup files the glob of restore_rubric_version yields *)
RestoreMatches(vers, filename, version) ==
    {n \in DOMAIN vers : GlobMatch(n, filename, version)}

(* the backup moved to the canonical path instead of copied *)
restore_rubric_version_Moves(canon, vers, backup_path) ==
    LET parsed == JsonLoad(vers[backup_path])
        same(r) == [canonical |-> canon, versions |-> vers, ret |-> r]
    IN  IF parsed.exc # "" THEN same("load_error")
        ELSE IF parsed.value.t # "dict" THEN same("TypeError")
        ELSE [canonical |-> JsonDump(SetItem(parsed.value, "status", Current)),
              versions |-> [n \in (DOMAIN vers) \ {backup_path} |-> vers[n]],
              ret |-> "ok"]

(* restore_rubric_version once the loop has kept backup_path, the first
   name the glob yielded: the store after the call and the value returned *)
restore_rubric_version(canon, vers, backup_path) ==
    LET parsed == JsonLoad(vers[backup_path])
        same(r) == [canonical |-> canon, versions |-> vers, ret |-> r]
    IN  IF parsed.exc # "" THEN same("load_error")
        ELSE IF parsed.value.t # "dict" THEN same("TypeError")
        ELSE [canonical |-> JsonDump(SetItem(parsed.value, "status", Current)),
              versions |-> vers,
              ret |-> "ok"]

(* ------------------------------ versions ------------------------------- *)

(* s.split(sep): the pieces of s between the occurrences of sep *)
RECURSIVE Split(_, _)
Split(s, sep) ==
    IF \E i \in 1..Len(s) : s[i] = sep
    THEN LET p == CHOOSE i \in 1..Len(s) :
                    s[i] = sep /\ \A j \in 1..(i - 1) : s[j] # sep
         IN  <<SubSeq(s, 1, p - 1)>> \o Split(SubSeq(s, p + 1, Len(s)), sep)
    ELSE <<s>>

(* the minor segment put back as it was *)
increment_version_Same(current_version) ==
    LET parts == Split(current_version, ".")
        appended == current_version \o <<".", "1">>
    IN  IF Len(parts) >= 2
        THEN LET minor == PyInt(PStr(parts[2]))
             IN  IF minor.exc = "ValueError" THEN Returns(PStr(appended))
                 ELSE Returns(PStr(parts[1] \o <<".">> \o IntToStr(minor.n)))
        ELSE Returns(PStr(appended))

(* increment_version(current_version) for a str: the text returned *)
increment_version(current_version) ==
    LET parts == Split(current_version, ".")
        appended == current_version \o <<".", "1">>
    IN  IF Len(parts) >= 2
        THEN LET minor == PyInt(PStr(parts[2]))
             IN  IF minor.exc = "ValueError" THEN Returns(PStr(appended))
                 ELSE Returns(PStr(parts[1] \o <<".">> \o IntToStr(minor.n + 1)))
        ELSE Returns(PStr(appended))

(* ------------------------------- editing ------------------------------- *)

(* One run of edit_rubric_interactive reads its answers from the record
   inp: every answer is the text typed, the empty text where the prompt is
   answered with the return key.  Prompts that ask again until the answer
   is accepted are given the accepted answer. *)

(* the edit goes on with the rubric r *)
Edited(r) == [stop |-> "", rubric |-> r]

(* the edit returns or raises without saving *)
Stopped(why) == [stop |-> why, rubric |-> PNone]

(* l.append(x), l.pop(idx) and l[idx] = x on lists; idx counts from 0 *)
ListAppend(l, x) == PList(Append(l.v, x))

ListPop(l, idx) ==
    PList([i \in 1..(Len(l.v) - 1) |-> IF i <= idx THEN l.v[i] ELSE l.v[i + 1]])

ListSet(l, idx, x) == PList([l.v EXCEPT ![idx + 1] = x])

(* d[key] = int(text) when text is not empty; ValueError stops the edit *)
SetInt(step, outer, key, text) ==
    IF step.stop # "" \/ text = <<>> THEN step
    ELSE LET n == PyInt(PStr(text))
         IN  IF n.exc # "" THEN Stopped("invalid_input")
             ELSE Edited(SetItem(step.rubric, outer,
                                 SetItem(step.rubric.v[outer], key, PInt(n.n))))

(* choice 1: name, description and, for a hierarchical rubric, version *)
EditBasicInfo(rubric, inp, is_new_format) ==
    LET named == IF inp.name # <<>> THEN SetItem(rubric, "name", PStr(inp.name))
                 ELSE rubric
        described == IF inp.description # <<>>
                     THEN SetItem(named, "description", PStr(inp.description))
                     ELSE named
    IN  Edited(IF is_new_format /\ inp.version # <<>>
               THEN SetItem(described, "version", PStr(inp.version))
               ELSE described)

(* choice 2: scale and thresholds, each read with int() *)
EditScale(rubric, inp) ==
    SetInt(SetInt(SetInt(SetInt(Edited(rubric), "scale", "min", inp.min),
                         "scale", "max", inp.max),
                  "thresholds", "pass", inp.pass),
           "thresholds", "revise", inp.revise)

(* a Python float from the value float(text) gave *)
AsFloat(x) ==
    IF x.k = "nan" THEN PNaN ELSE IF x.k = "inf" THEN PInf ELSE PFloat(x.n)

(* any(c[key] == id for c in entries) *)
AnyId(entries, key, id) ==
    \E i \in 1..Len(entries.v) :
        entries.v[i].v[key].t = "str" /\ entries.v[i].v[key].v = id

(* the criteria typed for a new category: ids n1, n2, ... with the points
   typed, every one accepted by the loop (a positive integer) *)
NewCriteria(points) ==
    PList([j \in 1..Len(points) |-> MkCriterion(Ident("n", j), PInt(points[j]))])

(* choice 3: a new category, or a new criterion of a legacy rubric *)
AddEntry(rubric, inp, is_new_format) ==
    LET key == IF is_new_format THEN "categories" ELSE "criteria"
        id_key == IF is_new_format THEN "category_id" ELSE "id"
        weight == PyFloat(PStr(inp.weight))
        max_points == PyInt(PStr(inp.max_points))
        entry == IF is_new_format
                 THEN PDict("category_id" :> PStr(inp.id) @@ "label" :> PStr(inp.label)
                            @@ "weight" :> AsFloat(weight)
                            @@ "max_points" :> PInt(max_points.n)
                            @@ "criteria" :> NewCriteria(inp.criteria))
                 ELSE PDict("id" :> PStr(inp.id) @@ "label" :> PStr(inp.label)
                            @@ "desc" :> PStr(inp.desc) @@ "weight" :> AsFloat(weight))
    IN  IF AnyId(rubric.v[key], id_key, inp.id) THEN Stopped("id_exists")
        ELSE IF weight.exc # "" THEN Stopped("invalid_input")
        ELSE IF ~(FloatGe(weight, Num(0)) /\ FloatGe(Num(Unit), weight))
             THEN Stopped("invalid_input")
        ELSE IF is_new_format /\ max_points.exc # "" THEN Stopped("invalid_input")
        ELSE IF is_new_format /\ max_points.n <= 0 THEN Stopped("invalid_input")
        ELSE Edited(SetItem(rubric, key, ListAppend(rubric.v[key], entry)))

(* int(text) - 1 as an index into entries: the index, or no index *)
IndexTyped(text, entries) ==
    LET n == PyInt(PStr(text))
    IN  IF n.exc # "" THEN [ok |-> FALSE, idx |-> 0]
        ELSE [ok |-> 0 <= n.n - 1 /\ n.n - 1 < Len(entries.v), idx |-> n.n - 1]

(* d[key] = conv(text) when text is not empty and conv accepts it; a
   ValueError is reported and the edit goes on *)
SetIfGiven(d, key, text, conv) ==
    IF text = <<>> THEN d
    ELSE IF conv = "str" THEN SetItem(d, key, PStr(text))
    ELSE IF conv = "float"
         THEN IF PyFloat(PStr(text)).exc # "" THEN d
              ELSE SetItem(d, key, AsFloat(PyFloat(PStr(text))))
    ELSE IF PyInt(PStr(text)).exc # "" THEN d
         ELSE SetItem(d, key, PInt(PyInt(PStr(text)).n))

(* the criterion of the category whose number was typed ('Edit criteria?'
   answered y), its label, desc and max_points edited *)
EditCriterionOf(category, inp) ==
    LET criteria == category.v["criteria"]
        at == IndexTyped(inp.crit_choice, criteria)
    IN  IF AllDigits(inp.crit_choice) /\ at.ok
        THEN SetItem(category, "criteria",
                ListSet(criteria, at.idx,
                    SetIfGiven(SetIfGiven(SetIfGiven(criteria.v[at.idx + 1],
                                                     "label", inp.crit_label, "str"),
                                          "desc", inp.crit_desc, "str"),
                               "max_points", inp.crit_max_points, "int")))
        ELSE category

(* choice 4 on a hierarchical rubric: the category after its label, weight
   and max_points and, when a criterion number was typed, that criterion
   were edited *)
EditCategory(category, inp) ==
    EditCriterionOf(SetIfGiven(SetIfGiven(SetIfGiven(category, "label", inp.label, "str"),
                                          "weight", inp.weight, "float"),
                               "max_points", inp.max_points, "int"),
                    inp)

(* choice 4 on a legacy rubric: the criterion after the edit *)
EditCriterion(criterion, inp) ==
    SetIfGiven(SetIfGiven(SetIfGiven(criterion, "label", inp.label, "str"),
                          "desc", inp.desc, "str"),
               "weight", inp.weight, "float")

(* choice 4: edit the entry whose number was typed *)
EditEntry(rubric, inp, is_new_format) ==
    LET key == IF is_new_format THEN "categories" ELSE "criteria"
        at == IndexTyped(inp.number, rubric.v[key])
        entry == rubric.v[key].v[at.idx + 1]
    IN  IF ~at.ok THEN Stopped("invalid_input")
        ELSE Edited(SetItem(rubric, key,
                ListSet(rubric.v[key], at.idx,
                        IF is_new_format THEN EditCategory(entry, inp)
                        ELSE EditCriterion(entry, inp))))

(* choice 5: remove the entry whose number was typed *)
RemoveEntry(rubric, inp, is_new_format) ==
    LET key == IF is_new_format THEN "categories" ELSE "criteria"
        at == IndexTyped(inp.number, rubric.v[key])
    IN  IF ~at.ok THEN Stopped("invalid_input")
        ELSE Edited(SetItem(rubric, key, ListPop(rubric.v[key], at.idx)))

(* the keys show_rubric_details and the first prompts read with [] *)
ShownKeys == {"name", "description", "scale", "overall_method", "thresholds"}

(* the menu choice applied to the loaded rubric *)
ApplyChoice(rubric, inp, is_new_format) ==
    CASE inp.choice = "1" -> EditBasicInfo(rubric, inp, is_new_format)
      [] inp.choice = "2" -> EditScale(rubric, inp)
      [] inp.choice = "3" -> AddEntry(rubric, inp, is_new_format)
      [] inp.choice = "4" -> EditEntry(rubric, inp, is_new_format)
      [] inp.choice = "5" -> RemoveEntry(rubric, inp, is_new_format)
      [] inp.choice = "6" -> Stopped("cancelled")
      [] OTHER -> Stopped("invalid_choice")

(* the edited rubric saved although validate_rubric rejected it *)
SaveEdited_Unchecked(canon, vers, filename, timestamp, is_new_format, rubric, checked) ==
    LET same(r) == [canonical |-> canon, versions |-> vers, ret |-> r]
        current_version == Get(rubric, "version", DefaultVersion)
    IN  IF checked.out = "exception" THEN same(checked.reason)
        ELSE IF is_new_format /\ current_version.t # "str" THEN same("AttributeError")
        ELSE [save_rubric_to_file(canon, vers,
                                  IF is_new_format
                                  THEN SetItem(rubric, "version",
                                               increment_version(current_version.v).value)
                                  ELSE rubric,
                                  filename, TRUE, timestamp)
              EXCEPT !.ret = IF checked.out = "valid" THEN "saved"
                             ELSE "validation_failed"]

(* 'Validate before saving': the edited rubric, whose validation gave
   checked, gets its version incremented when it is hierarchical and is
   saved with a backup *)
SaveEdited(canon, vers, filename, timestamp, is_new_format, rubric, checked) ==
    LET same(r) == [canonical |-> canon, versions |-> vers, ret |-> r]
        current_version == Get(rubric, "version", DefaultVersion)
    IN  IF checked.out = "exception" THEN same(checked.reason)
        ELSE IF checked.out # "valid" THEN same("validation_failed")
        ELSE IF is_new_format /\ current_version.t # "str" THEN same("AttributeError")
        ELSE [save_rubric_to_file(canon, vers,
                                  IF is_new_format
                                  THEN SetItem(rubric, "version",
                                               increment_version(current_version.v).value)
                                  ELSE rubric,
                                  filename, TRUE, timestamp)
              EXCEPT !.ret = "saved"]

(* the edit after the menu choice gave step *)
AfterChoice(canon, vers, filename, timestamp, is_new_format, step) ==
    IF step.stop # ""
    THEN [canonical |-> canon, versions |-> vers, ret |-> step.stop]
    ELSE SaveEdited(canon, vers, filename, timestamp, is_new_format,
                    step.rubric, validate_rubric(step.rubric))

(* the edit after load_rubric_from_file gave ld *)
EditLoaded(canon, vers, filename, inp, timestamp, ld) ==
    LET same(r) == [canonical |-> canon, versions |-> vers, ret |-> r]
        rubric == ld.rubric
        is_new_format == Has(rubric, "categories")
    IN  IF ld.err # "none" THEN same("load_error")
        ELSE IF rubric.t # "dict" THEN same("TypeError")
        ELSE IF ~(ShownKeys \subseteq DOMAIN rubric.v) THEN same("KeyError")
        ELSE AfterChoice(canon, vers, filename, timestamp, is_new_format,
                         ApplyChoice(rubric, inp, is_new_format))

(* edit_rubric_interactive(filename) given the answers inp: the store after
   the call and how the call ended *)
edit_rubric_interactive(canon, vers, filename, inp, timestamp) ==
    EditLoaded(canon, vers, filename, inp, timestamp, load_rubric_from_file(canon))

(* ------------------------------ listings ------------------------------- *)

(* the characters of file names and versions, in code point order *)
Ascii ==
    <<"-", ".", "0", "1", "2", "3", "4", "5", "6", "7", "8", "9", "_",
      "a", "b", "c", "d", "e", "f", "g", "h", "i", "j", "k", "l", "m",
      "n", "o", "p", "q", "r", "s", "t", "u", "v", "w", "x", "y", "z">>

Ord(c) == CHOOSE i \in 1..Len(Ascii) : Ascii[i] = c

(* a < b on str: the first differing character decides, a proper prefix
   comes first *)
TextLess(a, b) ==
    \E i \in 1..(Len(b)) :
        /\ \A j \in 1..(i - 1) : j <= Len(a) /\ a[j] = b[j]
        /\ \/ i = Len(a) + 1
           \/ i <= Len(a) /\ Ord(a[i]) < Ord(b[i])

(* sorted(names) *)
RECURSIVE Sorted(_)
Sorted(names) ==
    IF names = {} THEN <<>>
    ELSE LET first == CHOOSE n \in names :
                        \A o \in names \ {n} : TextLess(n, o)
         IN  <<first>> \o Sorted(names \ {first})

(* sorted(names, reverse=True) *)
Reversed(l) == [i \in 1..Len(l) |-> l[Len(l) + 1 - i]]

SampleRubric == <<"s", "a", "m", "p", "l", "e", "-", "r", "u", "b", "r", "i", "c">>

(* the entry list_available_rubrics inserts when no file gave one *)
BuiltInEntry ==
    [filename |-> SampleRubric,
     name |-> PStr(<<"S", "a", "m", "p", "l", "e", " ", "R", "u", "b", "r", "i", "c">>),
     description |->
        PStr(<<"B", "u", "i", "l", "t", "-", "i", "n", " ">>
             \o <<"s", "a", "m", "p", "l", "e", " ", "r", "u", "b", "r", "i", "c">>)]

NoDescription ==
    PStr(<<"N", "o", " ", "d", "e", "s", "c", "r", "i", "p", "t", "i", "o", "n", " ">>
         \o <<"a", "v", "a", "i", "l", "a", "b", "l", "e">>)

(* the entries appended when the status of a file is not looked at *)
RECURSIVE AvailableFrom_AnyStatus(_, _, _)
AvailableFrom_AnyStatus(files, stems, from) ==
    IF from > Len(stems) THEN <<>>
    ELSE LET stem == stems[from]
             parsed == JsonLoad(files[stem])
             rubric_data == parsed.value
             listed ==
                /\ parsed.exc = ""
                /\ rubric_data.t = "dict"
                /\ validate_rubric(rubric_data) = Valid
         IN  (IF listed
              THEN <<[filename |-> stem,
                      name |-> Get(rubric_data, "name", PStr(stem)),
                      description |-> Get(rubric_data, "description", NoDescription)]>>
              ELSE <<>>)
             \o AvailableFrom_AnyStatus(files, stems, from + 1)

(* the entries the loop of list_available_rubrics appends for the files
   stems[from..], in that order; files maps a stem to its document *)
RECURSIVE AvailableFrom(_, _, _)
AvailableFrom(files, stems, from) ==
    IF from > Len(stems) THEN <<>>
    ELSE LET stem == stems[from]
             parsed == JsonLoad(files[stem])
             rubric_data == parsed.value
             listed ==
                /\ parsed.exc = ""
                /\ rubric_data.t = "dict"
                /\ validate_rubric(rubric_data) = Valid
                /\ Get(rubric_data, "status", PNone) = Current
         IN  (IF listed
              THEN <<[filename |-> stem,
                      name |-> Get(rubric_data, "name", PStr(stem)),
                      description |-> Get(rubric_data, "description", NoDescription)]>>
              ELSE <<>>)
             \o AvailableFrom(files, stems, from + 1)

(* f.stem of the *.json names, in their order *)
Stems(names) ==
    [i \in 1..Len(names) |-> SubSeq(names[i], 1, Len(names[i]) - Len(DotJson))]

(* the built-in entry inserted first when no file gave a sample-rubric
   entry *)
WithBuiltIn(available) ==
    IF \E i \in 1..Len(available) : available[i].filename = SampleRubric
    THEN available
    ELSE <<BuiltInEntry>> \o available

(* list_available_rubrics() over the *.json files of the rubrics directory;
   dir.exists is Path.exists of the directory *)
list_available_rubrics(dir) ==
    WithBuiltIn(IF dir.exists
                THEN AvailableFrom(dir.files,
                                   Stems(Sorted({n \o DotJson : n \in DOMAIN dir.files})),
                                   1)
                ELSE <<>>)

(* fnmatch of a name against f"{filename}.v*.json" *)
GlobBackups(name, filename) ==
    LET head == filename \o <<".", "v">>
    IN  /\ Len(name) >= Len(head) + Len(DotJson)
        /\ SubSeq(name, 1, Len(head)) = head
        /\ SubSeq(name, Len(name) - Len(DotJson) + 1, Len(name)) = DotJson

CurrentText == <<"c", "u", "r", "r", "e", "n", "t">>

(* the entries list_rubric_versions makes of the backup names[from..]; a
   name of fewer than four dotted parts gives none *)
RECURSIVE BackupEntries(_, _)
BackupEntries(names, from) ==
    IF from > Len(names) THEN <<>>
    ELSE LET name == names[from]
             parts == Split(SubSeq(name, 1, Len(name) - Len(DotJson)), ".")
         IN  (IF Len(parts) >= 4 /\ Len(parts[2]) > 0 /\ parts[2][1] = "v"
              THEN <<[version |-> PStr(SubSeq(parts[2], 2, Len(parts[2]))
                                        \o <<".">> \o parts[3]),
                      filename |-> name,
                      type |-> "backup",
                      timestamp |-> parts[4]]>>
              ELSE <<>>)
             \o BackupEntries(names, from + 1)

(* list_rubric_versions(filename): the list returned *)
list_rubric_versions(canon, vers, filename) ==
    LET parsed == JsonLoad(canon)
        current ==
            IF canon.t # "absent" /\ parsed.exc = "" /\ parsed.value.t = "dict"
            THEN <<[version |-> Get(parsed.value, "version", DefaultVersion),
                    filename |-> filename \o DotJson,
                    type |-> "current",
                    timestamp |-> CurrentText]>>
            ELSE <<>>
        names == Reversed(Sorted({n \in DOMAIN vers : GlobBackups(n, filename)}))
    IN  current \o BackupEntries(names, 1)

(* ---------------------------- scoring engine --------------------------- *)

(* The scoring engine of the evaluator, after its description: a rubric and
   the raw score of every criterion give the category results, in the
   rubric's order, and the overall result.  A dict of results is the
   sequence of its items, in insertion order. *)

(* the sum of the raw scores of criteria[from..] *)
RECURSIVE CriteriaPoints(_, _, _)
CriteriaPoints(criteria, scores, from) ==
    IF from > Len(criteria) THEN 0
    ELSE scores[criteria[from].v["criterion_id"].v]
            + CriteriaPoints(criteria, scores, from + 1)

(* part / whole x 100 *)
Percentage(part, whole) ==
    IF whole.k = "num" /\ whole.n # 0
    THEN Num((part * Unit * 100 * Unit) \div whole.n)
    ELSE NaN

(* the result of one category: points, max_points and percentage *)
category_result(category, scores) ==
    LET points == CriteriaPoints(category.v["criteria"].v, scores, 1)
    IN  [points |-> points,
         max_points |-> category.v["max_points"],
         percentage |-> Percentage(points, PyFloat(category.v["max_points"]))]

(* the status of an overall value against the thresholds *)
pass_status(value, thresholds) ==
    IF FloatGe(value, PyFloat(thresholds.v["pass"])) THEN "pass"
    ELSE IF FloatGe(value, PyFloat(thresholds.v["revise"])) THEN "revise"
    ELSE "fail"

(* the points of the category results items[from..] summed *)
RECURSIVE TotalPoints(_, _)
TotalPoints(items, from) ==
    IF from > Len(items) THEN 0
    ELSE items[from].value.points + TotalPoints(items, from + 1)

(* the evaluation of a hierarchical rubric, method total_points *)
aggregate_scores(rubric_arg, scores) ==
    LET categories == rubric_arg.v["categories"].v
        items == [i \in 1..Len(categories) |->
                    [key |-> categories[i].v["category_id"].v,
                     value |-> category_result(categories[i], scores)]]
        total_points == TotalPoints(items, 1)
    IN  [categories |-> items,
         overall |-> [total_points |-> total_points,
                      max_points |-> rubric_arg.v["scale"].v["max"],
                      percentage |-> Percentage(total_points,
                                                PyFloat(rubric_arg.v["scale"].v["max"])),
                      method |-> "total_points",
                      pass_status |-> pass_status(Num(total_points * Unit),
                                                  rubric_arg.v["thresholds"])]]

(* --------------------------- the result shown -------------------------- *)

(* str.upper() of a status *)
Upper(status) ==
    CASE status = "pass" -> "PASS"
      [] status = "revise" -> "REVISE"
      [] status = "fail" -> "FAIL"
      [] OTHER -> "UNKNOWN"

(* the status line and the overall score line of the report *)
overall_lines(evaluation) ==
    LET overall == evaluation.overall
        status == Upper(overall.pass_status)
    IN  [status |-> status,
         status_emoji |-> IF status = "PASS" THEN "green"
                          ELSE IF status = "REVISE" THEN "yellow" ELSE "red",
         total_points |-> overall.total_points,
         max_points |-> overall.max_points,
         percentage |-> overall.percentage]

(* the categories listed in reverse *)
category_breakdown_Reversed(evaluation) ==
    LET categories == evaluation.categories
    IN  [i \in 1..Len(categories) |->
            LET item == categories[Len(categories) + 1 - i]
            IN  [cat_id |-> item.key,
                 points |-> item.value.points,
                 max_points |-> item.value.max_points,
                 percentage |-> item.value.percentage]]

(* the Category Breakdown lines of the report: one per item of the
   categories dict, in the dict's order *)
category_breakdown(evaluation) ==
    LET categories == evaluation.categories
    IN  [i \in 1..Len(categories) |->
            [cat_id |-> categories[i].key,
             points |-> categories[i].value.points,
             max_points |-> categories[i].value.max_points,
             percentage |-> categories[i].value.percentage]]

(* ------------------------- qualitative feedback ------------------------ *)

(* one strength or improvement *)
FeedbackItem(title, description) == [title |-> title, description |-> description]

(* the tone congratulating whoever did not fail *)
generate_qualitative_feedback_PraisesRevise(transcript, evaluation, texts) ==
    [strengths |-> <<FeedbackItem(texts[1], texts[2]), FeedbackItem(texts[2], texts[1])>>,
     improvements |-> <<FeedbackItem(texts[2], texts[2]), FeedbackItem(texts[1], texts[1])>>,
     tone |-> IF evaluation.overall.pass_status \in {"pass", "revise"}
              THEN "congratulatory" ELSE "supportive"]

(* generate_qualitative_feedback(transcript, evaluation), after its
   description and its tests: two strengths and two improvements in the
   words texts of the feedback service, and the tone the overall status
   decides *)
generate_qualitative_feedback(transcript, evaluation, texts) ==
    [strengths |-> <<FeedbackItem(texts[1], texts[2]), FeedbackItem(texts[2], texts[1])>>,
     improvements |-> <<FeedbackItem(texts[2], texts[2]), FeedbackItem(texts[1], texts[1])>>,
     tone |-> IF evaluation.overall.pass_status = "pass"
              THEN "congratulatory" ELSE "supportive"]

(* the Feedback for Submitter part of the page: the emoji of the tone and
   one expander per strength and per improvement *)
feedback_display(feedback) ==
    [tone_emoji |-> IF feedback.tone = "congratulatory" THEN "party" ELSE "handshake",
     strengths |-> [i \in 1..Len(feedback.strengths) |-> feedback.strengths[i].title],
     improvements |-> [i \in 1..Len(feedback.improvements) |->
                            feedback.improvements[i].title]]

(* --------------------------- one evaluation run ------------------------ *)

(* A run is what one call of the command line or one press of Analyze
   Video does: evaluator.process() goes through its stages and returns the
   result, the caller shows it and saves it; an exception raised on the way
   ends in the caller's except clause. *)

(* a run before evaluator.process() is called *)
NewRun(front, vision) ==
    [front |-> front, vision |-> vision, state |-> "Init", done |-> <<>>,
     transcript |-> "none", fallback |-> FALSE, flagged |-> FALSE,
     files |-> 0, error |-> "", submitter |-> "a", saved_as |-> <<>>]

(* the stages of process(), in order *)
Stages(vision) ==
    IF vision
    THEN <<"Transcribing", "VisualAnalysis", "Grading", "Aggregating",
           "FeedbackGeneration">>
    ELSE <<"Transcribing", "Grading", "Aggregating", "FeedbackGeneration">>

(* the stage after the n stages done, Returned after the last *)
StageAfter(vision, n) ==
    IF n < Len(Stages(vision)) THEN Stages(vision)[n + 1] ELSE "Returned"

(* the stage the run is in completes *)
stage_done(r) ==
    [r EXCEPT !.done = Append(@, r.state),
              !.state = StageAfter(r.vision, Len(r.done) + 1)]

(* the except clause saving what there is before it reports *)
on_exception_SavesPartial(r) ==
    [r EXCEPT !.state = "Failed", !.error = r.state, !.files = @ + 1]

(* the except clauses of the caller: the error is reported, nothing saved *)
on_exception(r) ==
    [r EXCEPT !.state = "Failed", !.error = r.state]

(* the name the caller hands to save_results: the page joins the
   submitter's names and the time to the second, the command line hands
   over the file argument *)
result_filename(r, timestamp) ==
    IF r.front = "ui" THEN <<r.submitter, timestamp>> ELSE <<r.submitter>>

(* save_results(result, name), after its description: the file written is
   named by the name given and the time to the second *)
save_results(name, timestamp) == <<name, timestamp>>

(* the caller after process() returned: the result is shown, the page
   flagging a mock transcript, and saved with save_results *)
show_and_save(r, timestamp) ==
    [r EXCEPT !.flagged = (r.front = "ui" /\ r.transcript = "mock"),
              !.files = @ + 1,
              !.saved_as = save_results(result_filename(r, timestamp), timestamp),
              !.state = "Persisted"]

(* ------------------------------ the state ------------------------------ *)

VARIABLES
    rubric,     \* the value handed to validate_rubric
    verdict,    \* what validate_rubric returned for it
    canonical,  \* rubrics/<filename>.json
    versions,   \* rubrics/versions/: file name -> document
    clock,      \* wall clock, in seconds
    log,        \* the store calls made so far, oldest first
    prev,       \* canonical, versions and clock before the last call
    loaded,     \* what the last load_rubric_from_file returned
    call,       \* the helper function called last and its argument
    result,     \* what that call returned or raised
    runs        \* the evaluation runs: run number -> where the run stands

vars == <<rubric, verdict, canonical, versions, clock, log, prev, loaded,
          call, result, runs>>

(* most store calls in one run *)
MaxOps == 3

(* last second of the clock *)
MaxClock == 1

(* the one rubric file name of the model *)
Filename == <<"x">>

WithMeta(body, name, meta) ==
    PDict([k \in (DOMAIN body.v) \cup {"name"} \cup DOMAIN meta |->
            IF k = "name" THEN PStr(<<name>>)
            ELSE IF k \in DOMAIN meta THEN meta[k] ELSE body.v[k]])

HalfThresholds == MkPair("revise", PFloat(150), "pass", PInt(3))

(* the rubrics handed to save_rubric_to_file *)
StoreRubrics ==
    <<WithMeta(MkHierarchical(GoodCategories, GoodScale, GoodThresholds), "A",
               "version" :> PStr(<<"1", ".", "0">>) @@ "status" :> Current
               @@ "description" :> Text),
      WithMeta(MkLegacy(GoodLegacyCriteria, GoodScale, HalfThresholds), "C",
               "version" :> PStr(<<"1", ".", "1">>) @@ "description" :> Text)>>

(* a rubric file the repository ships *)
ShippedRubric ==
    WithMeta(MkHierarchical(GoodCategories, GoodScale, GoodThresholds), "D",
             "version" :> PStr(<<"1", ".", "0">>) @@ "status" :> Current)

(* the canonical file before the first call: none, or a rubric file the
   repository ships *)
InitialFiles == {NoFile, JsonDump(ShippedRubric)}

(* the versions asked of restore_rubric_version *)
RestoreArgs == {<<"1", ".", "0">>, <<"1">>}

Pending == [out |-> "pending", reason |-> "none"]

(* no evaluation run started *)
NoRuns == <<>>

(* no helper called yet *)
NoCall == [fn |-> "none", arg |-> PNone, done |-> FALSE]

(* a helper called with an argument, not yet returned *)
Calling(fn, arg) == [fn |-> fn, arg |-> arg, done |-> FALSE]

Called(fn) == call.fn = fn /\ call.done

NoVersions == [n \in {} |-> NoFile]

Snapshot == [canonical |-> canonical, versions |-> versions, clock |-> clock]

Entry(op, r, b, v, ret) ==
    [op |-> op, rubric |-> r, create_backup |-> b, version |-> v, ret |-> ret,
     backups_before |-> Cardinality(DOMAIN versions),
     existed_before |-> canonical.t # "absent"]

StoreInit ==
    /\ canonical \in InitialFiles
    /\ versions = NoVersions
    /\ clock = 0
    /\ log = <<>>
    /\ prev = [canonical |-> canonical, versions |-> NoVersions, clock |-> 0]
    /\ loaded = [rubric |-> PNone, err |-> "none"]
    /\ runs = NoRuns

HelperInit ==
    /\ call = NoCall
    /\ result = Returns(PNone)

StoreUnchanged ==
    UNCHANGED <<canonical, versions, clock, log, prev, loaded, call, result, runs>>

(* ------------------------------ validation ----------------------------- *)

InitValidate ==
    /\ rubric \in RubricInputs
    /\ verdict = Pending
    /\ StoreInit
    /\ canonical = NoFile
    /\ HelperInit

Validate ==
    /\ verdict = Pending
    /\ verdict' = validate_rubric(rubric)
    /\ UNCHANGED rubric
    /\ StoreUnchanged

NextValidate == Validate

SpecValidate == InitValidate /\ [][NextValidate]_vars

(* -------------------------------- store -------------------------------- *)

Init ==
    /\ rubric = PNone
    /\ verdict = Pending
    /\ StoreInit
    /\ HelperInit

Save(r, create_backup) ==
    /\ Len(log) < MaxOps
    /\ LET out == save_rubric_to_file(canonical, versions, StoreRubrics[r],
                                      Filename, create_backup, Timestamp(clock))
       IN  /\ canonical' = out.canonical
           /\ versions' = out.versions
           /\ log' = Append(log, Entry("save", r, create_backup, <<>>, out.ret))
    /\ prev' = Snapshot
    /\ UNCHANGED <<rubric, verdict, clock, loaded, call, result, runs>>

Load ==
    /\ Len(log) < MaxOps
    /\ loaded' = load_rubric_from_file(canonical)
    /\ log' = Append(log, Entry("load", 0, FALSE, <<>>,
                                IF loaded'.err = "none" THEN "ok" ELSE loaded'.err))
    /\ prev' = Snapshot
    /\ UNCHANGED <<rubric, verdict, canonical, versions, clock, call, result, runs>>

(* the glob yields the matching names in directory order, which is any
   order: the first one is any of them *)
Restore(version) ==
    /\ Len(log) < MaxOps
    /\ LET matches == RestoreMatches(versions, Filename, version)
       IN  IF matches = {}
           THEN /\ log' = Append(log, Entry("restore", 0, FALSE, version, "not_found"))
                /\ UNCHANGED <<canonical, versions>>
           ELSE \E backup_path \in matches :
                  LET out == restore_rubric_version(canonical, versions, backup_path)
                  IN  /\ canonical' = out.canonical
                      /\ versions' = out.versions
                      /\ log' = Append(log, Entry("restore", 0, FALSE, version, out.ret))
    /\ prev' = Snapshot
    /\ UNCHANGED <<rubric, verdict, clock, loaded, call, result, runs>>

Tick ==
    /\ Len(log) < MaxOps
    /\ clock < MaxClock
    /\ clock' = clock + 1
    /\ UNCHANGED <<rubric, verdict, canonical, versions, log, prev, loaded,
                   call, result, runs>>

Next ==
    \/ \E r \in 1..Len(StoreRubrics), b \in BOOLEAN : Save(r, b)
    \/ Load
    \/ \E v \in RestoreArgs : Restore(v)
    \/ Tick

Spec == Init /\ [][Next]_vars

(* ------------------------------ commands ------------------------------- *)

(* the prompts all answered with the return key *)
NoAnswers ==
    [choice |-> <<>>, name |-> <<>>, description |-> <<>>, version |-> <<>>,
     min |-> <<>>, max |-> <<>>, pass |-> <<>>, revise |-> <<>>,
     id |-> <<>>, label |-> <<>>, desc |-> <<>>, weight |-> <<>>,
     max_points |-> <<>>, criteria |-> <<>>, number |-> <<>>,
     crit_choice |-> <<>>, crit_label |-> <<>>, crit_desc |-> <<>>,
     crit_max_points |-> <<>>]

(* the answers tried: a new name; a version typed; a scale that int()
   rejects; a pass threshold below revise; a new entry of weight 0; the
   first entry relabelled; the second entry removed; cancel; no choice *)
EditInputs ==
    {[NoAnswers EXCEPT !.choice = "1", !.name = <<"Z">>],
     [NoAnswers EXCEPT !.choice = "1", !.version = <<"3", ".", "0">>],
     [NoAnswers EXCEPT !.choice = "2", !.max = <<"x">>],
     [NoAnswers EXCEPT !.choice = "2", !.pass = <<"0">>],
     [NoAnswers EXCEPT !.choice = "3", !.id = <<"n">>, !.label = <<"l">>,
                       !.desc = <<"l">>, !.weight = <<"0">>,
                       !.max_points = <<"1">>, !.criteria = <<1>>],
     [NoAnswers EXCEPT !.choice = "4", !.number = <<"1">>, !.label = <<"m">>],
     [NoAnswers EXCEPT !.choice = "5", !.number = <<"2">>],
     [NoAnswers EXCEPT !.choice = "6"],
     [NoAnswers EXCEPT !.choice = "7"]}

(* the rubrics directory as list_available_rubrics finds it *)
StoreDir ==
    [exists |-> canonical.t # "absent" \/ versions # NoVersions,
     files |-> IF canonical.t = "absent" THEN [n \in {} |-> NoFile]
               ELSE [n \in {Filename} |-> canonical]]

Command(fn, arg) == [fn |-> fn, arg |-> arg, done |-> TRUE]

InitEdit ==
    /\ rubric = PNone
    /\ verdict = Pending
    /\ StoreInit
    /\ HelperInit

(* rubric_helper.py edit <filename> *)
EditRubric(inp) ==
    /\ Len(log) < MaxOps
    /\ \E out \in {edit_rubric_interactive(canonical, versions, Filename, inp,
                                            Timestamp(clock))} :
           /\ canonical' = out.canonical
           /\ versions' = out.versions
           /\ result' = Returns(out.ret)
           /\ log' = Append(log, Entry("edit", 0, TRUE, <<>>, out.ret))
    /\ call' = Command("edit_rubric_interactive", inp)
    /\ prev' = Snapshot
    /\ UNCHANGED <<rubric, verdict, clock, loaded, runs>>

(* [r['filename'] for r in existing_rubrics] *)
existing_names(existing_rubrics) ==
    {existing_rubrics[i].filename : i \in 1..Len(existing_rubrics)}

(* the Import Rubric button of the import page: enabled for a valid rubric
   whose file name is not listed, or with 'Overwrite if exists' checked *)
ImportRubric(r, overwrite) ==
    /\ Len(log) < MaxOps
    /\ validate_rubric(StoreRubrics[r]) = Valid
    /\ \/ overwrite
       \/ Filename \notin existing_names(list_available_rubrics(StoreDir))
    /\ Save(r, overwrite)

(* rubric_helper.py versions <filename> *)
ListVersions ==
    /\ Len(log) < MaxOps
    /\ result' = Returns(list_rubric_versions(canonical, versions, Filename))
    /\ call' = Command("list_rubric_versions", Filename)
    /\ log' = Append(log, Entry("versions", 0, FALSE, <<>>, "ok"))
    /\ prev' = Snapshot
    /\ UNCHANGED <<rubric, verdict, canonical, versions, clock, loaded, runs>>

(* rubric_helper.py list *)
ListAvailable ==
    /\ Len(log) < MaxOps
    /\ result' = Returns(list_available_rubrics(StoreDir))
    /\ call' = Command("list_available_rubrics", StoreDir)
    /\ log' = Append(log, Entry("list", 0, FALSE, <<>>, "ok"))
    /\ prev' = Snapshot
    /\ UNCHANGED <<rubric, verdict, canonical, versions, clock, loaded, runs>>

(* a second passes between two commands *)
Elapse ==
    /\ Len(log) < MaxOps
    /\ clock < MaxClock
    /\ clock' = clock + 1
    /\ log' = Append(log, Entry("wait", 0, FALSE, <<>>, "ok"))
    /\ prev' = Snapshot
    /\ UNCHANGED <<rubric, verdict, canonical, versions, loaded, call, result, runs>>

(* the commands of rubric_helper.py (edit, restore, show, versions, list)
   and the import page *)
NextEdit ==
    \/ \E inp \in EditInputs : EditRubric(inp)
    \/ \E r \in 1..Len(StoreRubrics), overwrite \in BOOLEAN : ImportRubric(r, overwrite)
    \/ \E v \in RestoreArgs : Restore(v)
    \/ Load
    \/ ListVersions
    \/ ListAvailable
    \/ Elapse

SpecEdit == InitEdit /\ [][NextEdit]_vars

(* ------------------------- increment_version --------------------------- *)

(* longest version string tried *)
MaxVersionLen == 3

VersionChars == {"0", "1", "9", ".", "v", "-"}

VersionInputs == {<<>>} \cup SeqsUpTo(VersionChars, MaxVersionLen)

InitIncrement ==
    /\ rubric = PNone
    /\ verdict = Pending
    /\ StoreInit
    /\ canonical = NoFile
    /\ call \in {Calling("increment_version", PStr(s)) : s \in VersionInputs}
    /\ result = Returns(PNone)

IncrementVersion ==
    /\ call.fn = "increment_version"
    /\ ~call.done
    /\ result' = increment_version(call.arg.v)
    /\ call' = [call EXCEPT !.done = TRUE]
    /\ UNCHANGED <<rubric, verdict, canonical, versions, clock, log, prev, loaded, runs>>

NextIncrement == IncrementVersion

SpecIncrement == InitIncrement /\ [][NextIncrement]_vars

(* ----------------------- list_available_rubrics ------------------------ *)

(* most *.json files in the rubrics directory *)
MaxFiles == 2

(* the i-th file stem: sample-rubric, r2, r3, ... *)
Stem(i) == IF i = 1 THEN SampleRubric ELSE <<"r">> \o NatToStr(i)

(* files tried in the rubrics directory: valid and current with and
   without name and description, valid without status, valid and archived,
   current and invalid, current and raising in validate_rubric, JSON that
   is no object, text that is no JSON *)
ListedFiles ==
    {JsonDump(WithMeta(MkHierarchical(GoodCategories, GoodScale, GoodThresholds), "A",
                       "description" :> Text @@ "status" :> Current)),
     JsonDump(SetItem(MkLegacy(GoodLegacyCriteria, GoodScale, GoodThresholds),
                      "status", Current)),
     JsonDump(MkLegacy(GoodLegacyCriteria, GoodScale, GoodThresholds)),
     JsonDump(WithMeta(MkHierarchical(GoodCategories, GoodScale, GoodThresholds), "B",
                       "status" :> Archive)),
     JsonDump(SetItem(MkLegacy(PList(<<>>), GoodScale, GoodThresholds),
                      "status", Current)),
     JsonDump(SetItem(MkHierarchical(PList(<<PInt(7)>>), GoodScale, GoodThresholds),
                      "status", Current)),
     JsonDump(PList(<<>>)),
     Garbage}

(* the directories tried: absent, or holding some of the first MaxFiles
   stems *)
Directories ==
    {[exists |-> FALSE, files |-> [n \in {} |-> NoFile]]}
    \cup {[exists |-> TRUE, files |-> f]
            : f \in UNION {[{Stem(i) : i \in held} -> ListedFiles]
                            : held \in SUBSET (1..MaxFiles)}}

InitList ==
    /\ rubric = PNone
    /\ verdict = Pending
    /\ StoreInit
    /\ canonical = NoFile
    /\ call \in {Calling("list_available_rubrics", d) : d \in Directories}
    /\ result = Returns(PNone)

ListAvailableRubrics ==
    /\ call.fn = "list_available_rubrics"
    /\ ~call.done
    /\ result' = Returns(list_available_rubrics(call.arg))
    /\ call' = [call EXCEPT !.done = TRUE]
    /\ UNCHANGED <<rubric, verdict, canonical, versions, clock, log, prev, loaded, runs>>

NextList == ListAvailableRubrics

SpecList == InitList /\ [][NextList]_vars

(* ------------------------ list_rubric_versions ------------------------- *)

(* most backups in the versions area *)
MaxBackups == 2

(* canonical files a save found and backed up: of version "1.0", of version
   "1.1", of a version without minor part, and one that json.load rejects *)
SavedFiles ==
    {JsonDump(StoreRubrics[1]),
     JsonDump(StoreRubrics[2]),
     JsonDump(SetItem(StoreRubrics[1], "version", PStr(<<"2">>))),
     Garbage}

(* the versions areas that up to n backup steps leave *)
RECURSIVE BackedUp(_)
BackedUp(n) ==
    IF n = 0 THEN {NoVersions}
    ELSE LET less == BackedUp(n - 1)
         IN  less \cup {BackupStep(f, v, Filename, Timestamp(t)) :
                            f \in SavedFiles, v \in less, t \in 0..MaxClock}

InitVersions ==
    /\ rubric = PNone
    /\ verdict = Pending
    /\ canonical \in {NoFile} \cup SavedFiles
    /\ versions \in BackedUp(MaxBackups)
    /\ clock = MaxClock
    /\ log = <<>>
    /\ prev = Snapshot
    /\ loaded = [rubric |-> PNone, err |-> "none"]
    /\ runs = NoRuns
    /\ call = Calling("list_rubric_versions", Filename)
    /\ result = Returns(PNone)

ListRubricVersions ==
    /\ call.fn = "list_rubric_versions"
    /\ ~call.done
    /\ result' = Returns(list_rubric_versions(canonical, versions, call.arg))
    /\ call' = [call EXCEPT !.done = TRUE]
    /\ UNCHANGED <<rubric, verdict, canonical, versions, clock, log, prev, loaded, runs>>

NextVersions == ListRubricVersions

SpecVersions == InitVersions /\ [][NextVersions]_vars

(* ------------------------------- scoring ------------------------------- *)

(* most points of one criterion *)
MaxPoints == 2

(* two categories, of two criteria and of one *)
ScoredCategories ==
    <<MkCategory(Ident("c", 1), PFloat(50), PInt(MaxPoints + 1),
                 PList(<<MkCriterion(Ident("k", 1), PInt(MaxPoints)),
                         MkCriterion(Ident("k", 2), PInt(1))>>)),
      MkCategory(Ident("b", 2), PFloat(50), PInt(MaxPoints),
                 PList(<<MkCriterion(Ident("k", 3), PInt(MaxPoints))>>))>>

(* thresholds tried: whole numbers, fractions, and one end that is NaN *)
ScoredThresholds ==
    {MkPair("revise", PInt(2), "pass", PInt(4)),
     MkPair("revise", PFloat(150), "pass", PFloat(350)),
     MkPair("revise", PNaN, "pass", PInt(4)),
     MkPair("revise", PInt(2), "pass", PNaN),
     MkPair("revise", PInt(4), "pass", PInt(2))}

(* scales tried: the maximum is the sum of the categories' points, or one
   less *)
ScoredScales ==
    {MkPair("min", PInt(0), "max", PInt(2 * MaxPoints + 1)),
     MkPair("min", PInt(0), "max", PInt(2 * MaxPoints))}

(* the rubrics scored: the categories in either order, with each of the
   scales and thresholds, those validate_rubric accepts *)
ScoredRubrics ==
    {r \in {MkHierarchical(PList(c), sc, th) :
                c \in {ScoredCategories, Reversed(ScoredCategories)},
                sc \in ScoredScales,
                th \in ScoredThresholds} :
        validate_rubric(r) = Valid}

(* the criteria of a rubric, as criterion_id :> max_points *)
CriteriaOf(r) ==
    LET all == UNION {{c.v["criteria"].v[j] : j \in 1..Len(c.v["criteria"].v)} :
                        c \in {r.v["categories"].v[i] : i \in 1..Len(r.v["categories"].v)}}
    IN  [id \in {k.v["criterion_id"].v : k \in all} |->
            (CHOOSE k \in all : k.v["criterion_id"].v = id).v["max_points"].v]

(* every raw score of every criterion, from 0 to the criterion's points *)
RawScores(r) ==
    {s \in [DOMAIN CriteriaOf(r) -> 0..MaxPoints] :
        \A id \in DOMAIN s : s[id] <= CriteriaOf(r)[id]}

InitScore ==
    /\ rubric = PNone
    /\ verdict = Pending
    /\ StoreInit
    /\ canonical = NoFile
    /\ call \in UNION {{Calling("evaluate", [rubric |-> r, scores |-> s]) :
                            s \in RawScores(r)} : r \in ScoredRubrics}
    /\ result = Returns(PNone)

(* the scores aggregated and the result shown by the command line *)
Evaluate ==
    /\ call.fn = "evaluate"
    /\ ~call.done
    /\ LET evaluation == aggregate_scores(call.arg.rubric, call.arg.scores)
       IN  result' = Returns([evaluation |-> evaluation,
                              overall |-> overall_lines(evaluation),
                              breakdown |-> category_breakdown(evaluation)])
    /\ call' = [call EXCEPT !.done = TRUE]
    /\ UNCHANGED <<rubric, verdict, canonical, versions, clock, log, prev, loaded, runs>>

NextScore == Evaluate

SpecScore == InitScore /\ [][NextScore]_vars

(* ------------------------------ feedback ------------------------------- *)

(* the words the feedback service answers with *)
FeedbackTexts == {<<"a", "b">>, <<"b", "a">>}

(* the evaluations feedback is asked for: every scored rubric with every
   raw score *)
Evaluations ==
    UNION {{[rubric |-> r, evaluation |-> aggregate_scores(r, s)] : s \in RawScores(r)} :
              r \in ScoredRubrics}

InitFeedback ==
    /\ rubric = PNone
    /\ verdict = Pending
    /\ StoreInit
    /\ canonical = NoFile
    /\ call \in {Calling("generate_qualitative_feedback",
                         [transcript |-> t, evaluation |-> e.evaluation, texts |-> x]) :
                    t \in {"real", "mock"}, e \in Evaluations, x \in FeedbackTexts}
    /\ result = Returns(PNone)

(* the feedback generated and shown by the page *)
GenerateQualitativeFeedback ==
    /\ call.fn = "generate_qualitative_feedback"
    /\ ~call.done
    /\ \E feedback \in {generate_qualitative_feedback(call.arg.transcript,
                                                      call.arg.evaluation,
                                                      call.arg.texts)} :
           result' = Returns([feedback |-> feedback,
                              shown |-> feedback_display(feedback)])
    /\ call' = [call EXCEPT !.done = TRUE]
    /\ UNCHANGED <<rubric, verdict, canonical, versions, clock, log, prev, loaded, runs>>

NextFeedback == GenerateQualitativeFeedback

SpecFeedback == InitFeedback /\ [][NextFeedback]_vars

(* ---------------------------- evaluation runs -------------------------- *)

(* most evaluation runs *)
MaxRuns == 1

InitRun ==
    /\ rubric = PNone
    /\ verdict = Pending
    /\ canonical = NoFile
    /\ versions = NoVersions
    /\ clock = 0
    /\ log = <<>>
    /\ prev = Snapshot
    /\ loaded = [rubric |-> PNone, err |-> "none"]
    /\ HelperInit
    /\ runs \in [1..MaxRuns -> {NewRun(front, vision) :
                                    front \in {"cli", "ui"}, vision \in BOOLEAN}]

(* run i goes on as r *)
Becomes(i, r) ==
    /\ runs' = [runs EXCEPT ![i] = r]
    /\ UNCHANGED <<rubric, verdict, canonical, versions, clock, log, prev,
                   loaded, call, result>>

(* evaluator.process() is called *)
Start(i) ==
    /\ runs[i].state = "Init"
    /\ Becomes(i, [runs[i] EXCEPT !.state = "Transcribing"])

(* the transcription gives a transcript, or fails and a mock transcript
   stands in for it, or raises *)
Transcribe(i, outcome) ==
    /\ runs[i].state = "Transcribing"
    /\ Becomes(i, IF outcome = "error" THEN on_exception(runs[i])
                  ELSE stage_done([runs[i] EXCEPT !.transcript = outcome]))

(* the vision analysis gives its narrative or raises *)
AnalyzeVisual(i, ok) ==
    /\ runs[i].state = "VisualAnalysis"
    /\ Becomes(i, IF ok THEN stage_done(runs[i]) ELSE on_exception(runs[i]))

(* the grading gives the raw scores, some of them fallback scores when
   the grading service failed, or raises *)
Grade(i, outcome) ==
    /\ runs[i].state = "Grading"
    /\ Becomes(i, IF outcome = "error" THEN on_exception(runs[i])
                  ELSE stage_done([runs[i] EXCEPT !.fallback = (outcome = "fallback")]))

(* the scoring engine gives the category and overall results or raises *)
Aggregate(i, ok) ==
    /\ runs[i].state = "Aggregating"
    /\ Becomes(i, IF ok THEN stage_done(runs[i]) ELSE on_exception(runs[i]))

(* the feedback service gives strengths and improvements or raises *)
GenerateFeedback(i, ok) ==
    /\ runs[i].state = "FeedbackGeneration"
    /\ Becomes(i, IF ok THEN stage_done(runs[i]) ELSE on_exception(runs[i]))

(* process() has returned: the caller shows the result and saves it, or
   save_results raises *)
ShowAndSave(i, ok) ==
    /\ runs[i].state = "Returned"
    /\ Becomes(i, IF ok THEN show_and_save(runs[i], Timestamp(clock))
                  ELSE on_exception(runs[i]))

NextRun ==
    \E i \in 1..MaxRuns :
        \/ Start(i)
        \/ \E outcome \in {"real", "mock", "error"} : Transcribe(i, outcome)
        \/ \E ok \in BOOLEAN : AnalyzeVisual(i, ok)
        \/ \E outcome \in {"scored", "fallback", "error"} : Grade(i, outcome)
        \/ \E ok \in BOOLEAN : Aggregate(i, ok)
        \/ \E ok \in BOOLEAN : GenerateFeedback(i, ok)
        \/ \E ok \in BOOLEAN : ShowAndSave(i, ok)

SpecRun == InitRun /\ [][NextRun]_vars

(* ----------------------------- result files --------------------------- *)

(* two runs of either caller, of one submitter or of two, the clock going
   on between their steps *)
InitResults ==
    /\ rubric = PNone
    /\ verdict = Pending
    /\ canonical = NoFile
    /\ versions = NoVersions
    /\ clock = 0
    /\ log = <<>>
    /\ prev = Snapshot
    /\ loaded = [rubric |-> PNone, err |-> "none"]
    /\ HelperInit
    /\ runs \in {<<NewRun(front1, FALSE),
                   [NewRun(front2, FALSE) EXCEPT !.submitter = submitter]>> :
                    front1 \in {"cli", "ui"}, front2 \in {"cli", "ui"},
                    submitter \in {"a", "b"}}

NextResults ==
    \/ \E i \in DOMAIN runs :
        \/ Start(i)
        \/ \E outcome \in {"real", "mock", "error"} : Transcribe(i, outcome)
        \/ \E outcome \in {"scored", "fallback", "error"} : Grade(i, outcome)
        \/ \E ok \in BOOLEAN : Aggregate(i, ok)
        \/ \E ok \in BOOLEAN : GenerateFeedback(i, ok)
        \/ \E ok \in BOOLEAN : ShowAndSave(i, ok)
    \/ Tick

SpecResults == InitResults /\ [][NextResults]_vars

(* --------------------------- validator claims -------------------------- *)

(* a number whose value is a positive whole number *)
IsPositiveInteger(x) ==
    \/ x.t = "int" /\ x.v > 0
    \/ x.t = "float" /\ x.v > 0 /\ x.v % Unit = 0

(* the value of an int or float, in hundredths *)
Hundredths(x) == IF x.t = "int" THEN x.v * Unit ELSE x.v

RECURSIVE SumOf(_, _)
SumOf(f, n) == IF n = 0 THEN 0 ELSE f[n] + SumOf(f, n - 1)

Accepted == verdict = Valid

Returned == verdict # Pending

(* categories of a hierarchical rubric, criteria of a legacy one *)
TopEntries(r) ==
    IF Has(r, "categories") THEN r.v["categories"].v ELSE r.v["criteria"].v

(* C1: in every accepted hierarchical rubric each category's max_points is
   a positive integer, each of its criteria's max_points is a positive
   integer, and the former equals the sum of the latter exactly. *)
C1_PointsExact ==
    (Accepted /\ Has(rubric, "categories")) =>
        \A i \in 1..Len(rubric.v["categories"].v) :
            LET category == rubric.v["categories"].v[i].v
                criteria == category["criteria"].v
            IN  /\ IsPositiveInteger(category["max_points"])
                /\ \A j \in 1..Len(criteria) :
                        IsPositiveInteger(criteria[j].v["max_points"])
                /\ SumOf([j \in 1..Len(criteria) |->
                            Hundredths(criteria[j].v["max_points"])],
                         Len(criteria))
                     = Hundredths(category["max_points"])

WeightOf(entry) == PyFloat(entry.v["weight"])

WeightTotal(entries) ==
    SumOf([i \in 1..Len(entries) |-> WeightOf(entries[i]).n], Len(entries))

(* C2: in every accepted rubric of either format each top-level weight is a
   number in [0, 1] and the top-level weights sum to a value in
   [0.99, 1.01]; so a rubric whose sum is outside is not accepted. *)
C2_WeightsInRange ==
    Accepted =>
        LET entries == TopEntries(rubric)
        IN  /\ \A i \in 1..Len(entries) :
                    /\ WeightOf(entries[i]).exc = ""
                    /\ WeightOf(entries[i]).k = "num"
                    /\ WeightOf(entries[i]).n >= 0
                    /\ WeightOf(entries[i]).n <= Unit
            /\ WeightTotal(entries) >= 99
            /\ WeightTotal(entries) <= 101

(* an accepted legacy rubric of two criteria whose weights sum to exactly
   0.99, the lower end of the interval *)
C2_Witness ==
    /\ Accepted
    /\ ~Has(rubric, "categories")
    /\ Len(TopEntries(rubric)) = 2
    /\ WeightTotal(TopEntries(rubric)) = 99

BothFormatKeys(r) == Has(r, "categories") /\ Has(r, "criteria")

NoFormatKey(r) == ~Has(r, "categories") /\ ~Has(r, "criteria")

DelItem(d, k) == PDict([kk \in (DOMAIN d.v) \ {k} |-> d.v[kk]])

(* C3 as stated: a rubric with neither `categories` nor `criteria`, and a
   rubric with both, is never accepted. *)
C3_ExactlyOneFormatKey ==
    (Returned /\ (NoFormatKey(rubric) \/ BothFormatKeys(rubric))) => ~Accepted

(* C3 as amended: a rubric with neither key is rejected for that reason; a
   rubric with both keys is validated as a hierarchical rubric, its
   `criteria` key being ignored: the result is the one the same rubric
   gets without that key. *)
C3_CategoriesDecideFormat ==
    Returned =>
        /\ NoFormatKey(rubric) => verdict = Invalid("no_format_key")
        /\ BothFormatKeys(rubric) =>
                verdict = validate_rubric(DelItem(rubric, "criteria"))

(* a rubric with both keys, accepted although its `criteria` is no list *)
C3_Witness ==
    /\ Accepted
    /\ BothFormatKeys(rubric)
    /\ rubric.v["criteria"].t # "list"

(* C4: validate_rubric returns (True, None) or (False, reason) for every
   rubric mapping; no exception leaves it. *)
C4_NoExceptionEscapes ==
    Returned => (verdict = Valid \/ (verdict.out = "invalid" /\ verdict.reason # "none"))

EndsOrdered(x, lo, hi) ==
    /\ x.t = "dict"
    /\ Has(x, lo) /\ Has(x, hi)
    /\ PyFloat(x.v[lo]).exc = "" /\ PyFloat(x.v[hi]).exc = ""
    /\ FloatLt(PyFloat(x.v[lo]), PyFloat(x.v[hi]))

(* C5: in every accepted rubric scale and thresholds are mappings of
   numbers with scale.min < scale.max and thresholds.revise <
   thresholds.pass. *)
C5_EndsOrdered ==
    Accepted =>
        /\ EndsOrdered(rubric.v["scale"], "min", "max")
        /\ EndsOrdered(rubric.v["thresholds"], "revise", "pass")

(* ----------------------------- store claims ---------------------------- *)


Last == log[Len(log)]

LastIs(op) == Len(log) > 0 /\ Last.op = op

(* the status a stored document carries, None when it carries none *)
StatusOf(doc) == Get(JsonValue(doc), "status", PNone)

EndsWith(name, tail) ==
    Len(name) >= Len(tail) /\ SubSeq(name, Len(name) - Len(tail) + 1, Len(name)) = tail

(* C6: a save with create_backup over an existing canonical file leaves in
   the versions area a backup named after the prior file's version (when it
   has one) and the second of the save, holding the prior content with
   status 'archive'; without create_backup, or without a prior file, the
   versions area is as before; in both cases the canonical file holds the
   new rubric. *)
C6_BackupOnOverwrite ==
    LastIs("save") =>
        /\ JsonValue(canonical) = StoreRubrics[Last.rubric]
        /\ IF Last.create_backup /\ prev.canonical.t # "absent"
           THEN LET prior == JsonValue(prev.canonical)
                    stamp == <<".">> \o Timestamp(prev.clock) \o DotJson
                IN  \E name \in DOMAIN versions :
                        /\ EndsWith(name, stamp)
                        /\ Has(prior, "version") =>
                                name = Filename \o <<".", "v">>
                                        \o prior.v["version"].v \o stamp
                        /\ JsonValue(versions[name]) = SetItem(prior, "status", Archive)
           ELSE versions = prev.versions

(* a backed-up save that added a file to the versions area *)
C6_Witness ==
    /\ LastIs("save")
    /\ Last.create_backup
    /\ prev.canonical.t # "absent"
    /\ Cardinality(DOMAIN versions) > Cardinality(DOMAIN prev.versions)

(* C7: from a store without backups, save(r1), save(r2, create_backup=True)
   and restore(r1.version) leave r1 with status 'current' in the canonical
   file. *)
C7_BackupThenRestore ==
    (/\ Len(log) >= 3
     /\ log[Len(log) - 2].op = "save"
     /\ log[Len(log) - 2].create_backup
     /\ log[Len(log) - 2].backups_before = 0
     /\ log[Len(log) - 1].op = "save"
     /\ log[Len(log) - 1].create_backup
     /\ Last.op = "restore"
     /\ Has(StoreRubrics[log[Len(log) - 2].rubric], "version")
     /\ Last.version = PyStr(StoreRubrics[log[Len(log) - 2].rubric].v["version"]))
    => JsonValue(canonical)
         = SetItem(StoreRubrics[log[Len(log) - 2].rubric], "status", Current)

(* C8: a load right after a successful save returns the saved rubric, at
   most with a status field added, and no error. *)
C8_SaveLoadRoundTrip ==
    (/\ Len(log) >= 2
     /\ Last.op = "load"
     /\ log[Len(log) - 1].op = "save"
     /\ log[Len(log) - 1].ret = "ok")
    => LET r == StoreRubrics[log[Len(log) - 1].rubric]
       IN  /\ loaded.err = "none"
           /\ loaded.rubric.t = "dict"
           /\ DOMAIN r.v \subseteq DOMAIN loaded.rubric.v
           /\ DOMAIN loaded.rubric.v \subseteq (DOMAIN r.v) \cup {"status"}
           /\ \A k \in DOMAIN r.v : loaded.rubric.v[k] = r.v[k]

(* a load that followed a save of the rubric that holds a fractional
   threshold *)
C8_Witness ==
    /\ Len(log) >= 2
    /\ Last.op = "load"
    /\ log[Len(log) - 1].op = "save"
    /\ loaded.err = "none"
    /\ Get(loaded.rubric, "name", PNone) = PStr(<<"C">>)

(* C9: the canonical file has status 'current' and every backup has status
   'archive'. *)
C9_ExactlyOneCurrent ==
    canonical.t # "absent" =>
        /\ StatusOf(canonical) = Current
        /\ \A n \in DOMAIN versions : StatusOf(versions[n]) = Archive

(* C10: a restore leaves the versions area as it was; when it succeeds the
   canonical file holds the content of a backup of the asked version, which
   still has status 'archive', with status 'current'; when it fails the
   canonical file is as it was. *)
C10_RestoreFrame ==
    LastIs("restore") =>
        /\ versions = prev.versions
        /\ IF Last.ret = "ok"
           THEN \E b \in DOMAIN versions :
                    /\ GlobMatch(b, Filename, Last.version)
                    /\ StatusOf(versions[b]) = Archive
                    /\ JsonValue(canonical)
                         = SetItem(JsonValue(versions[b]), "status", Current)
           ELSE canonical = prev.canonical

(* a successful restore that changed the canonical file *)
C10_Witness ==
    /\ LastIs("restore")
    /\ Last.ret = "ok"
    /\ canonical # prev.canonical
    /\ versions # NoVersions

(* ------------------------ increment_version claim --------------------- *)

NumDots(s) == Cardinality({i \in 1..Len(s) : s[i] = "."})

(* C15: increment_version raises nothing for a string; "major.minor" with
   an integer minor gives major.(minor+1); a string without a minor segment
   gives the string followed by ".1"; a string whose minor segment is not
   an integer gives the string followed by ".1". *)
C15_IncrementVersion ==
    Called("increment_version") =>
        LET s == call.arg.v
            p == DotPos(s)
            rest == SubSeq(s, p + 1, Len(s))
            q == DotPos(rest)
            minor == IF q = 0 THEN rest ELSE SubSeq(rest, 1, q - 1)
        IN  /\ result.exc = ""
            /\ result.value.t = "str"
            /\ NumDots(s) = 0 => result.value.v = s \o <<".", "1">>
            /\ (NumDots(s) = 1 /\ IsIntLiteral(minor)) =>
                    result.value.v = SubSeq(s, 1, p - 1) \o <<".">>
                        \o IntToStr(LiteralValue(minor) \div Unit + 1)
            /\ (NumDots(s) >= 1 /\ ~IsIntLiteral(minor)) =>
                    result.value.v = s \o <<".", "1">>

(* "1.9" incremented to "1.10" *)
C15_Witness ==
    /\ Called("increment_version")
    /\ call.arg.v = <<"1", ".", "9">>
    /\ result.value = PStr(<<"1", ".", "1", "0">>)

(* --------------------- list_available_rubrics claim -------------------- *)

(* the stored file of that stem parses, passes validate_rubric and has
   status 'current' *)
StoredValidCurrent(dir, stem) ==
    /\ dir.exists
    /\ stem \in DOMAIN dir.files
    /\ JsonLoad(dir.files[stem]).exc = ""
    /\ JsonLoad(dir.files[stem]).value.t = "dict"
    /\ validate_rubric(JsonLoad(dir.files[stem]).value) = Valid
    /\ Get(JsonLoad(dir.files[stem]).value, "status", PNone) = Current

(* C13: every entry list_available_rubrics returns is the built-in sample
   entry or stands for a stored file that parses, passes validate_rubric
   and has status 'current'; and for every directory, empty and absent
   ones included, the result holds an entry for 'sample-rubric'. *)
C13_ListedValidCurrent ==
    Called("list_available_rubrics") =>
        LET available == result.value
        IN  /\ \A i \in 1..Len(available) :
                    \/ available[i] = BuiltInEntry
                    \/ StoredValidCurrent(call.arg, available[i].filename)
            /\ \E i \in 1..Len(available) : available[i].filename = SampleRubric

(* a directory whose sample-rubric file is not listable and whose other
   file is: the built-in entry first, then the file's entry *)
C13_Witness ==
    /\ Called("list_available_rubrics")
    /\ SampleRubric \in DOMAIN call.arg.files
    /\ Len(result.value) = 2
    /\ result.value[1] = BuiltInEntry
    /\ result.value[2].filename = Stem(2)

(* ---------------------------- command claims --------------------------- *)

(* C11: whatever command ran last (save, restore, load, list or edit),
   every backup file that was in the versions area before it is still
   there after it. *)
C11_BackupsKept ==
    \A n \in DOMAIN prev.versions : n \in DOMAIN versions

(* an edit saved and left a second backup beside the one already there *)
C11_Witness ==
    /\ LastIs("edit")
    /\ Last.ret = "saved"
    /\ DOMAIN prev.versions # {}
    /\ Cardinality(DOMAIN versions) = Cardinality(DOMAIN prev.versions) + 1

(* the rubrics stored for the file name: the canonical file and the
   backups, those that parse to a dict *)
StoredRecords ==
    {JsonLoad(d).value :
        d \in {f \in {canonical} \cup {versions[n] : n \in DOMAIN versions} :
                  f.t # "absent" /\ JsonLoad(f).exc = "" /\ JsonLoad(f).value.t = "dict"}}

(* C12: any two stored records of the file name, canonical or backup, that
   carry the same version string have the same content apart from status. *)
C12_VersionNamesContent ==
    \A a, b \in StoredRecords :
        (Has(a, "version") /\ Has(b, "version") /\ a.v["version"] = b.v["version"])
            => DelItem(a, "status") = DelItem(b, "status")

(* the last command was an edit of a hierarchical rubric that was saved *)
HierarchicalEditSaved ==
    /\ LastIs("edit")
    /\ Last.ret = "saved"
    /\ Has(JsonValue(prev.canonical), "categories")

(* C16: an edit of a hierarchical rubric that passes validation saves the
   rubric with the minor version of the stored file incremented by one,
   leaves a backup named after the stored version that holds the stored
   content, and a restore to that version then brings the stored rubric
   back. *)
C16_EditBumpsAndBacksUp ==
    HierarchicalEditSaved =>
        LET before == JsonValue(prev.canonical)
            stored_version == Get(before, "version", DefaultVersion)
            backup == BackupFilename(Filename, stored_version, Timestamp(prev.clock))
        IN  /\ Get(JsonValue(canonical), "version", PNone)
                    = increment_version(stored_version.v).value
            /\ backup \in DOMAIN versions
            /\ DelItem(JsonValue(versions[backup]), "status") = DelItem(before, "status")
            /\ \A backup_path \in RestoreMatches(versions, Filename, stored_version.v) :
                    LET out == restore_rubric_version(canonical, versions, backup_path)
                    IN  /\ out.ret = "ok"
                        /\ DelItem(JsonValue(out.canonical), "status")
                                = DelItem(before, "status")

(* ---------------------- list_rubric_versions claim --------------------- *)

(* the entries of the given type in a listing, in its order *)
OfType(listing, type) == SelectSeq(listing, LAMBDA e : e.type = type)

(* C14: list_rubric_versions returns at most one 'current' entry, present
   exactly when the canonical file exists and parses and then first and
   carrying the file's version, followed by exactly one 'backup' entry for
   every backup file, the backups newest first by the second they were
   taken. *)
C14_VersionsListing ==
    Called("list_rubric_versions") =>
        LET listing == result.value
            current == OfType(listing, "current")
            backups == OfType(listing, "backup")
            parsed == JsonLoad(canonical)
        IN  /\ Len(current) = (IF canonical.t # "absent" /\ parsed.exc = "" THEN 1 ELSE 0)
            /\ Len(current) = 1 =>
                    /\ listing[1] = current[1]
                    /\ current[1].version = Get(parsed.value, "version", DefaultVersion)
            /\ Len(listing) = Len(current) + Len(backups)
            /\ Len(backups) = Cardinality(DOMAIN versions)
            /\ \A n \in DOMAIN versions :
                    \E i \in 1..Len(backups) : backups[i].filename = n
            /\ \A i, j \in 1..Len(backups) :
                    i < j => ~TextLess(backups[i].timestamp, backups[j].timestamp)

(* ---------------------------- scoring claims --------------------------- *)

(* C17: for every rubric validate_rubric accepts and every overall value,
   pass_status is "pass" exactly when the value is at least thresholds.pass,
   "revise" exactly when it is at least thresholds.revise and below
   thresholds.pass, "fail" exactly when it is below thresholds.revise, and
   it is one of the three. *)
C17_PassStatus ==
    Called("evaluate") =>
        LET thresholds == call.arg.rubric.v["thresholds"]
            pass == PyFloat(thresholds.v["pass"])
            revise == PyFloat(thresholds.v["revise"])
            value == Num(result.value.evaluation.overall.total_points * Unit)
            status == result.value.evaluation.overall.pass_status
        IN  /\ status \in {"pass", "revise", "fail"}
            /\ status = "pass" <=> FloatGe(value, pass)
            /\ status = "revise" <=> (FloatGe(value, revise) /\ FloatLt(value, pass))
            /\ status = "fail" <=> FloatLt(value, revise)

(* the raw scores of the criteria of one category, added up *)
PointsOf(category, scores) ==
    LET criteria == category.v["criteria"].v
        upto[n \in 0..Len(criteria)] ==
            IF n = 0 THEN 0
            ELSE upto[n - 1] + scores[criteria[n].v["criterion_id"].v]
    IN  upto[Len(criteria)]

(* C18: for a hierarchical rubric scored with total_points, the categories
   of the evaluation and of the report are the rubric's, in the declared
   order; each category's points are the sum of the raw scores of its
   criteria; overall total_points is the sum of the category points,
   overall max_points is scale.max and overall percentage is
   total_points / scale.max x 100, to the hundredth. *)
C18_TotalPoints ==
    Called("evaluate") =>
        LET categories == call.arg.rubric.v["categories"].v
            scale_max == call.arg.rubric.v["scale"].v["max"]
            evaluation == result.value.evaluation
            shown == result.value.breakdown
            total[n \in 0..Len(categories)] ==
                IF n = 0 THEN 0 ELSE total[n - 1] + evaluation.categories[n].value.points
        IN  /\ Len(evaluation.categories) = Len(categories)
            /\ Len(shown) = Len(categories)
            /\ \A i \in 1..Len(categories) :
                    /\ evaluation.categories[i].key = categories[i].v["category_id"].v
                    /\ evaluation.categories[i].value.points
                            = PointsOf(categories[i], call.arg.scores)
                    /\ shown[i].cat_id = categories[i].v["category_id"].v
                    /\ shown[i].points = PointsOf(categories[i], call.arg.scores)
            /\ evaluation.overall.total_points = total[Len(categories)]
            /\ evaluation.overall.max_points = scale_max
            /\ evaluation.overall.percentage.k = "num"
            /\ evaluation.overall.percentage.n * scale_max.v
                    <= evaluation.overall.total_points * 100 * Unit
            /\ evaluation.overall.total_points * 100 * Unit
                    < (evaluation.overall.percentage.n + 1) * scale_max.v
            /\ result.value.overall.total_points = evaluation.overall.total_points
            /\ result.value.overall.max_points = scale_max
            /\ result.value.overall.percentage = evaluation.overall.percentage

(* the categories declared b2 then c1, four points of five: 80.0 percent *)
C18_Witness ==
    /\ Called("evaluate")
    /\ call.arg.rubric.v["categories"].v[1].v["category_id"] = Ident("b", 2)
    /\ result.value.breakdown[1].cat_id = Ident("b", 2).v
    /\ result.value.breakdown[1].points = 1
    /\ result.value.breakdown[2].points = 3
    /\ result.value.evaluation.overall.total_points = 4
    /\ result.value.evaluation.overall.percentage = Num(80 * Unit)

(* ------------------------------ run claims ----------------------------- *)

(* the stages a run has completed are the first stages of process(), in
   order *)
InOrder(r) ==
    /\ Len(r.done) <= Len(Stages(r.vision))
    /\ r.done = SubSeq(Stages(r.vision), 1, Len(r.done))

(* C19: a run writes its result file at most once, and only when every
   stage (transcribing, visual analysis when enabled, grading, aggregating,
   feedback generation) has completed, in that order; a run in which a
   stage failed fatally is Failed and has written no result file. *)
C19_SavedOnceAtTheEnd ==
    \A i \in 1..Len(runs) :
        /\ runs[i].files <= 1
        /\ InOrder(runs[i])
        /\ runs[i].files = 1 =>
                /\ runs[i].state = "Persisted"
                /\ runs[i].done = Stages(runs[i].vision)
        /\ runs[i].state = "Persisted" => runs[i].files = 1
        /\ runs[i].error # "" <=> runs[i].state = "Failed"
        /\ runs[i].state = "Failed" => runs[i].files = 0

(* a run with visual analysis has saved its result *)
C19_Witness ==
    \E i \in 1..Len(runs) :
        /\ runs[i].vision
        /\ runs[i].state = "Persisted"
        /\ runs[i].files = 1
        /\ Len(runs[i].done) = 5

(* C20: a run whose transcription gave no transcript goes no further: it
   is Failed, with the failure reported to the caller; no run grades,
   aggregates, generates feedback or saves with a substitute transcript. *)
C20_NoTranscriptIsFatal ==
    \A i \in 1..Len(runs) :
        runs[i].state \notin {"Init", "Transcribing", "Failed"}
            => runs[i].transcript = "real"

(* ---------------------------- feedback claims -------------------------- *)

(* C21: generate_qualitative_feedback returns the tone "congratulatory"
   exactly when the overall pass_status of the evaluation is "pass" and
   "supportive" for every other status, and always two strengths and two
   improvements, each with a title and a description. *)
C21_FeedbackTone ==
    Called("generate_qualitative_feedback") =>
        LET feedback == result.value.feedback
            status == call.arg.evaluation.overall.pass_status
        IN  /\ feedback.tone = "congratulatory" <=> status = "pass"
            /\ status # "pass" => feedback.tone = "supportive"
            /\ Len(feedback.strengths) = 2
            /\ Len(feedback.improvements) = 2
            /\ \A i \in 1..2 :
                   /\ DOMAIN feedback.strengths[i] = {"title", "description"}
                   /\ DOMAIN feedback.improvements[i] = {"title", "description"}
            /\ result.value.shown.tone_emoji = "party" <=> status = "pass"

(* feedback was given for an evaluation whose status is revise *)
C21_Witness ==
    /\ Called("generate_qualitative_feedback")
    /\ call.arg.evaluation.overall.pass_status = "revise"
    /\ result.value.feedback.tone = "supportive"

(* C22: two evaluation runs, in any interleaving, never write their
   results to the same result filename, so no run's saved result is
   overwritten by another run. *)
C22_ResultNamesDiffer ==
    \A i, j \in DOMAIN runs :
        i # j /\ runs[i].state = "Persisted" /\ runs[j].state = "Persisted"
            => runs[i].saved_as # runs[j].saved_as

(* ----------------------------- check order ----------------------------- *)

(* the defects put into a good two-category rubric, in the order the checks
   of validate_rubric come to them, each with the reason its check gives *)
Defects ==
    <<[name |-> "top", reason |-> "missing_keys"],
      [name |-> "cat1_fields", reason |-> "category_missing_fields"],
      [name |-> "cat1_weight", reason |-> "category_weight_not_number"],
      [name |-> "cat1_points", reason |-> "category_max_points_not_positive"],
      [name |-> "cat1_points_inf", reason |-> "category_max_points_not_integer"],
      [name |-> "cat1_criteria", reason |-> "category_criteria_not_list"],
      [name |-> "cat1_criterion", reason |-> "criterion_missing_fields"],
      [name |-> "cat1_sum", reason |-> "category_points_mismatch"],
      [name |-> "cat2_fields", reason |-> "category_missing_fields"],
      [name |-> "cat2_dup", reason |-> "duplicate_category_id"],
      [name |-> "cat2_weight", reason |-> "category_weight_out_of_range"],
      [name |-> "weight_sum", reason |-> "category_weight_sum"],
      [name |-> "scale", reason |-> "scale_order"],
      [name |-> "thresholds", reason |-> "thresholds_order"]>>

DefectNames == {Defects[i].name : i \in DOMAIN Defects}

(* the rubric with the defects D: category c1 of weight 0.5 and 8 points
   (criteria of 5 and 3), category c2 of weight 0.5 and 2 points *)
Defective(D) ==
    LET k1 == MkCriterion(Ident("k", 1), PInt(5))
        crits1 == IF "cat1_criteria" \in D THEN PList(<<>>)
                  ELSE PList(<<IF "cat1_criterion" \in D THEN DelItem(k1, "desc") ELSE k1,
                               MkCriterion(Ident("k", 2), PInt(3))>>)
        points1 == IF "cat1_points" \in D THEN PInt(0)
                   ELSE IF "cat1_points_inf" \in D THEN PInf
                   ELSE IF "cat1_sum" \in D THEN PInt(10)
                   ELSE PInt(8)
        cat1 == MkCategory(Ident("c", 1),
                           IF "cat1_weight" \in D THEN PStr(<<"x">>) ELSE PFloat(50),
                           points1, crits1)
        cat2 == MkCategory(IF "cat2_dup" \in D THEN Ident("c", 1) ELSE Ident("c", 2),
                           IF "cat2_weight" \in D THEN PInt(2)
                           ELSE IF "weight_sum" \in D THEN PFloat(40)
                           ELSE PFloat(50),
                           PInt(2),
                           PList(<<MkCriterion(Ident("k", 3), PInt(2))>>))
        whole == MkHierarchical(
                    PList(<<IF "cat1_fields" \in D THEN DelItem(cat1, "label") ELSE cat1,
                            IF "cat2_fields" \in D THEN DelItem(cat2, "label") ELSE cat2>>),
                    IF "scale" \in D THEN MkPair("min", PInt(4), "max", PInt(4))
                    ELSE MkPair("min", PInt(0), "max", PInt(10)),
                    IF "thresholds" \in D THEN MkPair("revise", PInt(3), "pass", PInt(1))
                    ELSE MkPair("revise", PInt(5), "pass", PInt(8)))
    IN  IF "top" \in D THEN DelItem(whole, "overall_method") ELSE whole

(* no defect, one defect, or two *)
DefectSets == {D \in SUBSET DefectNames : Cardinality(D) <= 2}

(* what the first check that meets a defect of D reports; (True, None)
   when there is none *)
FirstViolation(D) ==
    IF D = {} THEN Valid
    ELSE Invalid(Defects[CHOOSE i \in DOMAIN Defects :
                            /\ Defects[i].name \in D
                            /\ \A j \in 1..(i - 1) : Defects[j].name \notin D].reason)

InitOrder ==
    /\ \E D \in DefectSets :
          /\ rubric = Defective(D)
          /\ call = Calling("validate_rubric", D)
    /\ verdict = Pending
    /\ StoreInit
    /\ canonical = NoFile
    /\ result = Returns(PNone)

SpecOrder == InitOrder /\ [][NextValidate]_vars

(* C23: validate_rubric reports the first violation in the order of its
   checks: missing top-level keys, then for each category in declared order
   missing fields, duplicate category_id, weight, max_points, criteria
   list, each criterion, point-sum match, then the weight sum, then scale,
   then thresholds. *)
C23_FirstViolationReported ==
    Returned => verdict = FirstViolation(call.arg)

(* the order of the reports, where validate_rubric reports: the reason
   given is the reason of the first defect in check order *)
OrderOfReports ==
    (Returned /\ verdict.out # "exception") => verdict = FirstViolation(call.arg)

(* the two rubrics of the description: weights 0.5 and 0.4 give the
   weight-sum reason, 10 points over criteria of 8 the sum-mismatch reason *)
DescribedExamples ==
    /\ validate_rubric(Defective({"weight_sum"})) = Invalid("category_weight_sum")
    /\ validate_rubric(Defective({"cat1_sum"})) = Invalid("category_points_mismatch")

(* ----------------------------- restore claims -------------------------- *)

(* the version embedded in a stored document, as the backup name has it *)
VersionIn(doc) == PyStr(Get(JsonValue(doc), "version", DefaultVersion))

(* C24: restore_rubric_version(filename, version) succeeds only if there is
   a backup of that filename taken from a file whose version is exactly the
   requested version, and then the canonical file has that backup's
   content; a version that is only a prefix of a stored version restores
   nothing; on failure the canonical file and the versions area are
   unchanged. *)
C24_RestoreExactVersion ==
    LastIs("restore") =>
        IF Last.ret = "ok"
        THEN \E b \in DOMAIN prev.versions :
                /\ GlobBackups(b, Filename)
                /\ VersionIn(prev.versions[b]) = Last.version
                /\ JsonValue(canonical)
                     = SetItem(JsonValue(prev.versions[b]), "status", Current)
        ELSE canonical = prev.canonical /\ versions = prev.versions

(* C25: no history is lost by backed-up saves, several within one second
   included: a save with create_backup leaves every earlier backup with the
   content it had, and the canonical content it overwrites is held by a
   backup with status archive. *)
C25_NoHistoryLost ==
    (LastIs("save") /\ Last.create_backup) =>
        /\ \A n \in DOMAIN prev.versions :
               n \in DOMAIN versions /\ versions[n] = prev.versions[n]
        /\ prev.canonical.t # "absent" =>
               \E n \in DOMAIN versions :
                   JsonValue(versions[n])
                     = SetItem(JsonValue(prev.canonical), "status", Archive)

(* ----------------------------- import claims --------------------------- *)

(* C26: with 'Overwrite if exists' unchecked, an import never replaces an
   existing canonical rubric file of that name: the import goes through
   only if no file of that name is in the store, whatever its validity or
   status. *)
C26_ImportKeepsExisting ==
    (LastIs("save") /\ ~Last.create_backup) => prev.canonical.t = "absent"

(* ------------------------- more validator claims ----------------------- *)

(* C27: in every hierarchical rubric validate_rubric accepts, the criterion
   identifiers are unique across the whole rubric, not only within one
   category. *)
C27_CriterionIdsUnique ==
    (Accepted /\ Has(rubric, "categories")) =>
        LET cats == rubric.v["categories"].v
        IN  \A i1, i2 \in 1..Len(cats) :
              \A j1 \in 1..Len(cats[i1].v["criteria"].v),
                 j2 \in 1..Len(cats[i2].v["criteria"].v) :
                 (cats[i1].v["criteria"].v[j1].v["criterion_id"]
                    = cats[i2].v["criteria"].v[j2].v["criterion_id"])
                 => (i1 = i2 /\ j1 = j2)

(* C28: for every hierarchical rubric validate_rubric accepts and all raw
   scores between 0 and the criterion's max_points, the overall
   total_points is at most the overall max_points (scale.max), so the
   overall percentage lies between 0 and 100. *)
C28_TotalWithinScale ==
    Called("evaluate") =>
        LET overall == result.value.evaluation.overall
        IN  /\ overall.total_points * Unit <= PyFloat(overall.max_points).n
            /\ FloatGe(overall.percentage, Num(0))
            /\ FloatGe(Num(100 * Unit), overall.percentage)

(* the version save_rubric_to_file reads from the file it backs up *)
CurrentVersionOf(doc) ==
    LET parsed == JsonLoad(doc)
    IN  IF parsed.exc = "" /\ parsed.value.t = "dict"
        THEN Get(parsed.value, "version", DefaultVersion)
        ELSE UnknownVersion

(* C29: for every backup that save_rubric_to_file made of a file with
   version v (a missing version, one without a minor part and 'unknown'
   included) at timestamp ts, list_rubric_versions(filename) has a 'backup'
   entry whose version is v and whose timestamp is ts. *)
C29_BackupRoundTrip ==
    Called("list_rubric_versions") =>
        \A n \in DOMAIN versions : \A t \in 0..MaxClock :
            n = BackupFilename(Filename, CurrentVersionOf(versions[n]), Timestamp(t))
                => \E i \in 1..Len(result.value) :
                        /\ result.value[i].type = "backup"
                        /\ result.value[i].version = CurrentVersionOf(versions[n])
                        /\ result.value[i].timestamp = Timestamp(t)

(* C30: an edit that does not end in a save of a validated rubric (the
   rubric could not be loaded, the edit was cancelled, the choice or an
   input was invalid, or validate_rubric rejected the edited rubric) leaves
   the canonical file and the versions area exactly as they were. *)
C30_EditChangesOnlyWhenValidated ==
    (LastIs("edit") /\ Last.ret # "saved") =>
        /\ canonical = prev.canonical
        /\ versions = prev.versions

(* an edit of a stored rubric that has a backup was rejected by
   validate_rubric *)
C30_Witness ==
    /\ LastIs("edit")
    /\ Last.ret = "validation_failed"
    /\ prev.canonical.t # "absent"
    /\ DOMAIN prev.versions # {}
    /\ canonical = prev.canonical

=============================================================================
